---- MODULE Spec2Model ----
(***************************************************************************)
(* Analytics core of the FX insight bots: the label and ranking functions  *)
(* of the technical matrix, the event analysis, CARS, the timezone buckets *)
(* and the PCA core.  Every function of the core is pure, so the state of  *)
(* the model is one call: the function called, its arguments and the      *)
(* value it returned; a behaviour is a call made from the idle state.      *)
(* Real numbers are scaled integers; the unit is named where a value is    *)
(* introduced.                                                             *)
(***************************************************************************)
EXTENDS Integers, Sequences, FiniteSets, TLC

VARIABLES fn, args, ret

vars == <<fn, args, ret>>

\* No call has been made yet.
Idle ==
    /\ fn = "idle"
    /\ args = <<>>
    /\ ret = <<>>

Abs(x) == IF x < 0 THEN -x ELSE x

Min(a, b) == IF a < b THEN a ELSE b

RECURSIVE SeqSum(_)
SeqSum(q) == IF Len(q) = 0 THEN 0 ELSE q[1] + SeqSum(Tail(q))

\* A quotient of the code is the pair <<numerator, denominator>> with a
\* positive denominator; the operators below are its arithmetic.
RatAdd(a, b) == <<a[1] * b[2] + b[1] * a[2], a[2] * b[2]>>

RatLe(a, b) == a[1] * b[2] <= b[1] * a[2]

RatEq(a, b) == a[1] * b[2] = b[1] * a[2]

RatLt(a, b) == a[1] * b[2] < b[1] * a[2]

\* round(x, d): x to the nearest multiple of unit, halves to the even one.
Round(x, unit) ==
    LET q == x \div unit
        r == x % unit
    IN  IF 2 * r < unit THEN q * unit
        ELSE IF 2 * r > unit THEN (q + 1) * unit
        ELSE IF q % 2 = 0 THEN q * unit
        ELSE (q + 1) * unit

\* The greatest common divisor of two naturals, not both zero.
RECURSIVE Gcd(_, _)
Gcd(a, b) == IF b = 0 THEN a ELSE Gcd(b, a % b)

\* A quotient in lowest terms.
Lowest(q) ==
    LET g == Gcd(Abs(q[1]), q[2])
    IN  <<q[1] \div g, q[2] \div g>>

RatMul(a, b) == Lowest(<<a[1] * b[1], a[2] * b[2]>>)

\* round(q * scale): the quotient q in units of 1 / scale, to the nearest
\* whole unit.
RoundQuotient(q, scale) == Round(q[1] * scale, q[2]) \div q[2]

\* A float that may be NaN is the record [nan, v].
NaN == [nan |-> TRUE, v |-> 0]

Num(x) == [nan |-> FALSE, v |-> x]

\* pd.notna
notna(x) == ~x.nan

\* --------------------------------------------------------------------------
\* technical_matrix.py: positioning_signal.  MAA, UD and RS are percentages.
\* --------------------------------------------------------------------------

\* positioning_signal with the up-trend reversal test made non-strict (>= 80).
positioning_signal_ge(maa, ud, rs) ==
    IF maa > 60 THEN
        IF ud >= 80 /\ rs >= 80 THEN "Bearish"
        ELSE IF ud < 50 /\ rs < 50 THEN "Bullish"
        ELSE IF ud > 80 \/ rs > 80 THEN "Sl. Bearish"
        ELSE IF ud < 50 \/ rs < 50 THEN "Sl. Bullish"
        ELSE "No Signal"
    ELSE IF maa < 40 THEN
        IF ud < 20 /\ rs < 20 THEN "Bullish"
        ELSE IF ud > 50 /\ rs > 50 THEN "Bearish"
        ELSE IF ud < 20 \/ rs < 20 THEN "Sl. Bullish"
        ELSE IF ud > 50 \/ rs > 50 THEN "Sl. Bearish"
        ELSE "No Signal"
    ELSE "No Signal"

positioning_signal(maa, ud, rs) ==
    IF maa > 60 THEN
        IF ud > 80 /\ rs > 80 THEN "Bearish"
        ELSE IF ud < 50 /\ rs < 50 THEN "Bullish"
        ELSE IF ud > 80 \/ rs > 80 THEN "Sl. Bearish"
        ELSE IF ud < 50 \/ rs < 50 THEN "Sl. Bullish"
        ELSE "No Signal"
    ELSE IF maa < 40 THEN
        IF ud < 20 /\ rs < 20 THEN "Bullish"
        ELSE IF ud > 50 /\ rs > 50 THEN "Bearish"
        ELSE IF ud < 20 \/ rs < 20 THEN "Sl. Bullish"
        ELSE IF ud > 50 \/ rs > 50 THEN "Sl. Bearish"
        ELSE "No Signal"
    ELSE "No Signal"

\* MAA values around the two regime cut-offs; UD and RS over the whole scale.
MaaValues == {0, 39, 40, 41, 50, 59, 60, 61, 100}

Percent == 0..100

PositioningSignal ==
    /\ fn = "idle"
    /\ \E maa \in MaaValues, ud \in Percent, rs \in Percent :
        /\ fn' = "positioning_signal"
        /\ args' = [maa |-> maa, ud |-> ud, rs |-> rs]
        /\ ret' = positioning_signal(maa, ud, rs)

\* A value that may be None is the record [some, v]; None is written with
\* a v of the kind of the values it stands in for: a number, a quotient, a
\* series.
None == [some |-> FALSE, v |-> 0]

NoneLevel == [some |-> FALSE, v |-> <<0, 1>>]

NoneSeries == [some |-> FALSE, v |-> <<>>]

Some(x) == [some |-> TRUE, v |-> x]

\* The sum of f[a..b], by halves.
RECURSIVE SumRange(_, _, _)
SumRange(f, a, b) ==
    IF a > b THEN 0
    ELSE IF a = b THEN f[a]
    ELSE LET mid == (a + b) \div 2
         IN  SumRange(f, a, mid) + SumRange(f, mid + 1, b)

\* sma(series, window).iloc[-1]: the rolling mean with min_periods = window
\* at the last bar, a quotient, NaN when the series is shorter than window.
sma_last(series, window) ==
    IF Len(series) >= window
        THEN Num(<<SumRange(series, Len(series) - window + 1, Len(series)), window>>)
        ELSE NaN

MA_PAIRS ==
    <<(<<5, 20>>), (<<5, 50>>), (<<5, 100>>), (<<5, 200>>),
      (<<10, 20>>), (<<10, 50>>), (<<10, 100>>), (<<10, 200>>),
      (<<15, 50>>), (<<15, 100>>), (<<15, 200>>),
      (<<20, 50>>), (<<20, 100>>), (<<20, 200>>),
      (<<25, 50>>), (<<25, 100>>), (<<25, 200>>),
      (<<30, 50>>), (<<30, 100>>), (<<30, 200>>),
      (<<35, 50>>), (<<35, 100>>), (<<35, 200>>),
      (<<40, 50>>), (<<40, 100>>), (<<40, 200>>),
      (<<50, 100>>), (<<50, 200>>)>>

\* The signals list of compute_maa after the first k pairs of MA_PAIRS,
\* the comparison of the two means being > (strict) or >=.
RECURSIVE maa_signals(_, _, _)
maa_signals(close, k, strict) ==
    IF k = 0 THEN <<>>
    ELSE
        LET short_val == sma_last(close, MA_PAIRS[k][1])
            long_val == sma_last(close, MA_PAIRS[k][2])
            before == maa_signals(close, k - 1, strict)
            above == IF strict THEN RatLt(long_val.v, short_val.v)
                     ELSE RatLe(long_val.v, short_val.v)
        IN  IF notna(short_val) /\ notna(long_val)
                THEN Append(before, IF above THEN 1 ELSE 0)
                ELSE before

\* compute_maa counting a pair of equal means as above.
compute_maa_ge(close) ==
    LET signals == maa_signals(close, Len(MA_PAIRS), FALSE)
    IN  IF signals = <<>> THEN <<50, 1>>
        ELSE <<100 * SeqSum(signals), Len(signals)>>

\* compute_maa: a percentage, as a quotient.
compute_maa(close) ==
    LET signals == maa_signals(close, Len(MA_PAIRS), TRUE)
    IN  IF signals = <<>> THEN <<50, 1>>
        ELSE <<100 * SeqSum(signals), Len(signals)>>

\* Close series in pips: flat (dir = 0), or a straight run down to or up
\* from the bar `turn` (0: before the first bar), then back.
Path(len, turn, dir) == SubSeq([i \in 1..len |-> 1000 + dir * Abs(i - turn)], 1, len)

SeriesLengths == {3, 19, 20, 49, 50, 99, 100, 199, 200, 260}

Turns == {0, 10, 25, 45, 90, 150, 230}

ClosePaths ==
    {Path(len, turn, dir) : len \in SeriesLengths, turn \in Turns, dir \in {-1, 0, 1}}

ComputeMaa ==
    /\ fn = "idle"
    /\ \E close \in ClosePaths :
        /\ fn' = "compute_maa"
        /\ args' = [close |-> close]
        /\ ret' = compute_maa(close)

\* fibonacci_levels(high, low): the three retracement levels, as quotients.
fibonacci_levels(high, low) ==
    LET diff == high - low
    IN  <<(<<1000 * high - 382 * diff, 1000>>),
          (<<1000 * high - 500 * diff, 1000>>),
          (<<1000 * high - 618 * diff, 1000>>)>>

\* series.iloc[-n:].max() and .min(), by halves.
RECURSIVE RangeMax(_, _, _)
RangeMax(f, a, b) ==
    IF a = b THEN f[a]
    ELSE LET mid == (a + b) \div 2
             left == RangeMax(f, a, mid)
             right == RangeMax(f, mid + 1, b)
         IN  IF left >= right THEN left ELSE right

RECURSIVE RangeMin(_, _, _)
RangeMin(f, a, b) ==
    IF a = b THEN f[a]
    ELSE LET mid == (a + b) \div 2
             left == RangeMin(f, a, mid)
             right == RangeMin(f, mid + 1, b)
         IN  IF left <= right THEN left ELSE right

\* The candidates list of compute_support_resistance.
candidate_levels(close, high, low) ==
    LET sma_levels(w) ==
            LET val == sma_last(close, w)
            IN  IF notna(val) THEN <<val.v>> ELSE <<>>
        range_levels(lookback) ==
            LET n == Min(lookback, Len(close))
                h == RangeMax(high, Len(high) - n + 1, Len(high))
                l == RangeMin(low, Len(low) - n + 1, Len(low))
            IN  <<(<<h, 1>>), (<<l, 1>>)>> \o fibonacci_levels(h, l)
    IN  sma_levels(50) \o sma_levels(100) \o sma_levels(200)
            \o range_levels(252) \o range_levels(504)

\* sorted(levels, reverse=True)[0] and sorted(levels)[0] of a non-empty list.
Greatest(levels) == CHOOSE c \in levels : \A d \in levels : RatLe(d, c)

Least(levels) == CHOOSE c \in levels : \A d \in levels : RatLe(c, d)

\* compute_support_resistance taking a candidate at spot as support.
compute_support_resistance_le(close, high, low) ==
    LET spot == <<close[Len(close)], 1>>
        candidates == candidate_levels(close, high, low)
        all == {candidates[i] : i \in 1..Len(candidates)}
        support_levels == {c \in all : RatLe(c, spot)}
        resist_levels == {c \in all : RatLt(spot, c)}
    IN  [next_support |->
             IF support_levels # {} THEN Some(Greatest(support_levels)) ELSE NoneLevel,
         next_resistance |->
             IF resist_levels # {} THEN Some(Least(resist_levels)) ELSE NoneLevel]

compute_support_resistance(close, high, low) ==
    LET spot == <<close[Len(close)], 1>>
        candidates == candidate_levels(close, high, low)
        all == {candidates[i] : i \in 1..Len(candidates)}
        support_levels == {c \in all : RatLt(c, spot)}
        resist_levels == {c \in all : RatLt(spot, c)}
    IN  [next_support |->
             IF support_levels # {} THEN Some(Greatest(support_levels)) ELSE NoneLevel,
         next_resistance |->
             IF resist_levels # {} THEN Some(Least(resist_levels)) ELSE NoneLevel]

\* Close series long enough for the 252 and the 504 bar look-back to differ.
LevelPaths ==
    {Path(len, turn, dir) : len \in {1, 50, 100, 200, 260, 510},
                            turn \in {0, 90, 230, 300, 505}, dir \in {-1, 0, 1}}

\* high = close + above and low = close - below, bar by bar.
Shifted(close, by) == SubSeq([i \in 1..Len(close) |-> close[i] + by], 1, Len(close))

ComputeSupportResistance ==
    /\ fn = "idle"
    /\ \E close \in LevelPaths, above \in {0, 7}, below \in {0, 7} :
        LET high == Shifted(close, above)
            low == Shifted(close, -below)
        IN  /\ fn' = "compute_support_resistance"
            /\ args' = [close |-> close, high |-> high, low |-> low]
            /\ ret' = compute_support_resistance(close, high, low)

\* positioning_trend_arrow: the arrow by its name.
positioning_trend_arrow(maa) ==
    IF maa > 60 THEN "up"
    ELSE IF maa < 40 THEN "down"
    ELSE "sideways"

adx_trend_label(adx_val, dmi_plus, dmi_minus) ==
    IF ~notna(adx_val) THEN "N/A"
    ELSE IF adx_val.v < 20 THEN "Range"
    ELSE IF adx_val.v < 25 THEN "Transition"
    ELSE IF dmi_plus > dmi_minus THEN "Uptrend"
    ELSE "Downtrend"

bollinger_signal(spot, upper, lower) ==
    IF ~notna(upper) \/ ~notna(lower) THEN "None"
    ELSE IF spot > upper.v THEN "Upper"
    ELSE IF spot < lower.v THEN "Lower"
    ELSE "None"

\* An exception that leaves the call.
Raise(error) == [tag |-> "raise", error |-> error]

\* The data of a pair: None, or a DataFrame held by its number of bars and
\* by what the indicator functions return on its columns: compute_maa (a
\* whole percentage here), compute_ud, compute_rs_proxy, the last row of
\* adx_dmi and of bollinger_bands, and compute_support_resistance.
NoData == [kind |-> "None"]

DataFrame(bars, profile) ==
    [kind |-> "DataFrame", bars |-> bars, spot |-> 1000 + profile,
     maa |-> IF profile = 1 THEN 70 ELSE 30,
     ud |-> IF profile = 1 THEN 90 ELSE 10,
     rs |-> IF profile = 1 THEN 90 ELSE 10,
     adx |-> IF profile = 1 THEN Num(30) ELSE NaN,
     dmi_plus |-> 25, dmi_minus |-> 15,
     upper |-> IF profile = 1 THEN Num(1000) ELSE NaN,
     lower |-> Num(990),
     sr |-> [next_support |-> Some(<<990, 1>>),
             next_resistance |-> IF profile = 1 THEN NoneLevel ELSE Some(<<1010, 1>>)]]

\* df is None or df.empty
Missing(df) == df.kind = "None" \/ df.bars = 0

\* The row build_technical_matrix gives the pairs without enough data.
not_applicable_row ==
    [Spot |-> None, Trend |-> "N/A", Signal |-> "N/A", ADX_Trend |-> "N/A",
     Bollinger |-> "N/A", Next_Support |-> NoneLevel, Next_Resistance |-> NoneLevel]

\* The body of the loop of build_technical_matrix for one pair, with 49
\* bars enough.
technical_row_49(df) ==
    IF Missing(df) \/ df.bars < 49 THEN not_applicable_row
    ELSE
        LET maa == df.maa
            ud == IF df.bars >= 252 THEN df.ud ELSE 50
            rs == IF df.bars >= 252 THEN df.rs ELSE 50
        IN  [Spot |-> Some(df.spot),
             Trend |-> positioning_trend_arrow(maa),
             Signal |-> positioning_signal(maa, ud, rs),
             ADX_Trend |-> adx_trend_label(df.adx, df.dmi_plus, df.dmi_minus),
             Bollinger |-> bollinger_signal(df.spot, df.upper, df.lower),
             Next_Support |-> df.sr.next_support,
             Next_Resistance |-> df.sr.next_resistance]

\* The body of the loop of build_technical_matrix for one pair, with UD and
\* RS computed whatever the number of bars (the 50.0 defaults dropped).
technical_row_no_default(df) ==
    IF Missing(df) \/ df.bars < 50 THEN not_applicable_row
    ELSE
        LET maa == df.maa
            ud == df.ud
            rs == df.rs
        IN  [Spot |-> Some(df.spot),
             Trend |-> positioning_trend_arrow(maa),
             Signal |-> positioning_signal(maa, ud, rs),
             ADX_Trend |-> adx_trend_label(df.adx, df.dmi_plus, df.dmi_minus),
             Bollinger |-> bollinger_signal(df.spot, df.upper, df.lower),
             Next_Support |-> df.sr.next_support,
             Next_Resistance |-> df.sr.next_resistance]

\* The body of the loop of build_technical_matrix for one pair.
technical_row(df) ==
    IF Missing(df) \/ df.bars < 50 THEN not_applicable_row
    ELSE
        LET maa == df.maa
            ud == IF df.bars >= 252 THEN df.ud ELSE 50
            rs == IF df.bars >= 252 THEN df.rs ELSE 50
        IN  [Spot |-> Some(df.spot),
             Trend |-> positioning_trend_arrow(maa),
             Signal |-> positioning_signal(maa, ud, rs),
             ADX_Trend |-> adx_trend_label(df.adx, df.dmi_plus, df.dmi_minus),
             Bollinger |-> bollinger_signal(df.spot, df.upper, df.lower),
             Next_Support |-> df.sr.next_support,
             Next_Resistance |-> df.sr.next_resistance]

\* all_pair_data is the dict as the sequence of its items <<pair, df>>.
\* pd.DataFrame(rows).set_index("Pair") raises KeyError when rows is empty:
\* the frame of an empty list has no column "Pair".
build_technical_matrix(all_pair_data) ==
    IF Len(all_pair_data) = 0 THEN Raise("KeyError")
    ELSE [tag |-> "DataFrame",
          index |-> [i \in 1..Len(all_pair_data) |-> all_pair_data[i][1]],
          rows |-> [i \in 1..Len(all_pair_data) |-> technical_row(all_pair_data[i][2])]]

\* The pairs of the universe used in the calls.
Universe == <<"EURUSD", "USDJPY", "USDTHB">>

MaxPairs == 2

\* The dicts of at most MaxPairs items over the universe, in every order.
RECURSIVE Mappings(_, _)
Mappings(n, data) ==
    IF n = 0 THEN {<<>>}
    ELSE LET shorter == Mappings(n - 1, data)
         IN  shorter \cup
             {Append(m, <<Universe[k], df>>) :
                 m \in {x \in shorter : Len(x) = n - 1},
                 k \in 1..Len(Universe), df \in data}

DistinctKeys(m) == \A i, j \in 1..Len(m) : m[i][1] = m[j][1] => i = j

TechData ==
    {NoData} \cup {DataFrame(bars, profile) : bars \in {0, 49, 50, 251, 252}, profile \in 1..2}

BuildTechnicalMatrix ==
    /\ fn = "idle"
    /\ \E all_pair_data \in {m \in Mappings(MaxPairs, TechData) : DistinctKeys(m)} :
        /\ fn' = "build_technical_matrix"
        /\ args' = [all_pair_data |-> all_pair_data]
        /\ ret' = build_technical_matrix(all_pair_data)

NextTech ==
    \/ PositioningSignal
    \/ ComputeMaa
    \/ ComputeSupportResistance
    \/ BuildTechnicalMatrix

SpecTech == Idle /\ [][NextTech]_vars

\* C2: positioning_signal follows the decision table: above MAA 60 the
\* labels are Bearish (UD>80 and RS>80), Bullish (UD<50 and RS<50),
\* Sl. Bearish (exactly one above 80), Sl. Bullish (exactly one below 50,
\* none above 80), else No Signal; below MAA 40 the mirrored table with the
\* cut-offs 20 and 50; between 40 and 60 inclusive always No Signal.
PositioningTable ==
    fn = "positioning_signal" =>
        LET maa == args.maa
            ud == args.ud
            rs == args.rs
            hi80 == Cardinality({x \in {"ud", "rs"} : args[x] > 80})
            lo50 == Cardinality({x \in {"ud", "rs"} : args[x] < 50})
            lo20 == Cardinality({x \in {"ud", "rs"} : args[x] < 20})
            hi50 == Cardinality({x \in {"ud", "rs"} : args[x] > 50})
        IN  /\ (maa >= 40 /\ maa <= 60) => ret = "No Signal"
            /\ maa > 60 =>
                 /\ (ret = "Bearish") = (hi80 = 2)
                 /\ (ret = "Bullish") = (lo50 = 2)
                 /\ (ret = "Sl. Bearish") = (hi80 = 1)
                 /\ (ret = "Sl. Bullish") = (hi80 = 0 /\ lo50 = 1)
                 /\ (ret = "No Signal") = (hi80 = 0 /\ lo50 = 0)
            /\ maa < 40 =>
                 /\ (ret = "Bullish") = (lo20 = 2)
                 /\ (ret = "Bearish") = (hi50 = 2)
                 /\ (ret = "Sl. Bullish") = (lo20 = 1)
                 /\ (ret = "Sl. Bearish") = (lo20 = 0 /\ hi50 = 1)
                 /\ (ret = "No Signal") = (lo20 = 0 /\ hi50 = 0)

\* An up-trend call exactly on the UD/RS cut-off 80, which is not a reversal.
PositioningBoundaryCall ==
    /\ fn = "positioning_signal"
    /\ args.maa = 61
    /\ args.ud = 80
    /\ args.rs = 80
    /\ ret = "No Signal"

\* The mean of the last w closes of the call, when there are w.
MeanOfLast(w) ==
    <<SumRange(args.close, Len(args.close) - w + 1, Len(args.close)), w>>

\* C16: compute_maa on L closes uses exactly the pairs of MA_PAIRS whose
\* long window is at most L and returns 100 times the share of them whose
\* short mean is strictly above the long mean, a value in [0, 100]; with no
\* usable pair, as for every L below 20, it returns 50.
MaaCountsUsablePairs ==
    fn = "compute_maa" =>
        LET L == Len(args.close)
            usable == {k \in 1..Len(MA_PAIRS) : MA_PAIRS[k][2] <= L}
            above == {k \in usable :
                         RatLt(MeanOfLast(MA_PAIRS[k][2]), MeanOfLast(MA_PAIRS[k][1]))}
        IN  /\ Len(MA_PAIRS) = 28
            /\ L < 20 => usable = {}
            /\ IF usable = {} THEN ret = <<50, 1>>
               ELSE /\ RatEq(ret, <<100 * Cardinality(above), Cardinality(usable)>>)
                    /\ ret[2] = Cardinality(usable)
                    /\ RatLe(<<0, 1>>, ret)
                    /\ RatLe(ret, <<100, 1>>)

\* A flat series of 50 bars: 10 of the 28 pairs are usable, every pair has
\* equal means and none counts.
MaaFlatSeriesOfFifty ==
    /\ fn = "compute_maa"
    /\ Len(args.close) = 50
    /\ \A i \in 1..50 : args.close[i] = args.close[1]
    /\ ret = <<0, 10>>

\* A series too short for any pair.
MaaOfThreePoints ==
    /\ fn = "compute_maa"
    /\ Len(args.close) = 3
    /\ ret = <<50, 1>>

\* A turning series of 260 bars: some pairs are above and some are not.
MaaMixedSignals ==
    /\ fn = "compute_maa"
    /\ Len(args.close) = 260
    /\ RatLt(<<0, 1>>, ret)
    /\ RatLt(ret, <<100, 1>>)

\* The candidate levels of a compute_support_resistance call.
CandidateSet ==
    LET candidates == candidate_levels(args.close, args.high, args.low)
    IN  {candidates[i] : i \in 1..Len(candidates)}

\* C17: next_support is the greatest candidate strictly below spot and
\* next_resistance the least candidate strictly above it; each is absent
\* exactly when no candidate lies on its side, a candidate at spot is
\* neither; when both are present next_support < spot < next_resistance and
\* no candidate lies strictly between the two except at spot.
SupportResistanceNearest ==
    fn = "compute_support_resistance" =>
        LET spot == <<args.close[Len(args.close)], 1>>
            below == {c \in CandidateSet : RatLt(c, spot)}
            above == {c \in CandidateSet : RatLt(spot, c)}
            sup == ret.next_support
            res == ret.next_resistance
        IN  /\ sup.some = (below # {})
            /\ res.some = (above # {})
            /\ sup.some =>
                /\ \E c \in below : RatEq(c, sup.v)
                /\ \A c \in below : RatLe(c, sup.v)
            /\ res.some =>
                /\ \E c \in above : RatEq(c, res.v)
                /\ \A c \in above : RatLe(res.v, c)
            /\ (sup.some /\ res.some) =>
                /\ RatLt(sup.v, spot)
                /\ RatLt(spot, res.v)
                /\ \A c \in CandidateSet :
                    (RatLt(sup.v, c) /\ RatLt(c, res.v)) => RatEq(c, spot)

\* A series that ends on its high with high = close: the two-year high is a
\* candidate at spot, there is support and no resistance.
SupportOnlyAtTheHigh ==
    /\ fn = "compute_support_resistance"
    /\ Len(args.close) = 510
    /\ \E c \in CandidateSet : RatEq(c, <<args.close[510], 1>>)
    /\ ret.next_support.some
    /\ ~ret.next_resistance.some

\* Both levels present with a candidate at spot between them.
SupportAndResistanceAroundSpot ==
    /\ fn = "compute_support_resistance"
    /\ \E c \in CandidateSet : RatEq(c, <<args.close[Len(args.close)], 1>>)
    /\ ret.next_support.some
    /\ ret.next_resistance.some

\* What C14 says of the table of a build_technical_matrix call.
TechnicalMatrixRows ==
    LET data == args.all_pair_data
        short(df) == df.kind = "None" \/ df.bars < 50
    IN  /\ ret.tag = "DataFrame"
        /\ Len(ret.index) = Len(data)
        /\ Len(ret.rows) = Len(data)
        /\ \A i \in 1..Len(data) :
            LET df == data[i][2]
                row == ret.rows[i]
            IN  /\ ret.index[i] = data[i][1]
                /\ short(df) =>
                    /\ ~row.Spot.some
                    /\ ~row.Next_Support.some
                    /\ ~row.Next_Resistance.some
                    /\ row.Trend = "N/A"
                    /\ row.Signal = "N/A"
                    /\ row.ADX_Trend = "N/A"
                    /\ row.Bollinger = "N/A"
                /\ ~short(df) => (row.Trend # "N/A" /\ row.Signal # "N/A")
                /\ row = build_technical_matrix(<<data[i]>>).rows[1]

\* C14: build_technical_matrix returns one row per pair of its mapping,
\* keyed by the pair; a pair with None, empty or fewer than 50 bars of data
\* has Spot and both levels absent and the four labels "N/A", and leaves
\* the rows of the other pairs as they are computed alone; a pair with 50
\* bars or more never has "N/A" for Trend or Signal.
TechnicalMatrixRowPerPair ==
    fn = "build_technical_matrix" => TechnicalMatrixRows

\* The same for the calls with at least one pair.
TechnicalMatrixRowPerPairNonEmpty ==
    (fn = "build_technical_matrix" /\ Len(args.all_pair_data) > 0) => TechnicalMatrixRows

\* The call on the empty mapping raises instead of returning a table.
TechnicalMatrixOfNothingRaises ==
    /\ fn = "build_technical_matrix"
    /\ args.all_pair_data = <<>>
    /\ ret = Raise("KeyError")

\* A pair of 49 bars next to a pair of 252 bars with a signal.
TechnicalMatrixShortNextToLong ==
    /\ fn = "build_technical_matrix"
    /\ Len(args.all_pair_data) = 2
    /\ args.all_pair_data[1][2].kind = "DataFrame"
    /\ args.all_pair_data[1][2].bars = 49
    /\ args.all_pair_data[2][2].kind = "DataFrame"
    /\ args.all_pair_data[2][2].bars = 252
    /\ ret.rows[1] = not_applicable_row
    /\ ret.rows[2].Signal = "Bearish"

\* C29: a pair with at least 50 and fewer than 252 bars gets Signal
\* "No Signal" from build_technical_matrix whatever its MAA and its prices,
\* because UD = RS = 50 meets none of the strict conditions of
\* positioning_signal in either regime; its Trend is still the arrow of
\* its MAA.
ShortHistoryNoSignal ==
    /\ (fn = "positioning_signal" /\ args.ud = 50 /\ args.rs = 50) => ret = "No Signal"
    /\ (fn = "build_technical_matrix" /\ Len(args.all_pair_data) > 0) =>
          \A i \in 1..Len(args.all_pair_data) :
              LET df == args.all_pair_data[i][2]
                  row == ret.rows[i]
              IN  (~Missing(df) /\ df.bars >= 50 /\ df.bars < 252) =>
                      /\ row.Signal = "No Signal"
                      /\ row.Trend = positioning_trend_arrow(df.maa)
                      /\ (df.maa > 60) = (row.Trend = "up")
                      /\ (df.maa < 40) = (row.Trend = "down")

\* Two pairs of 251 and 50 bars whose own UD and RS would give a signal:
\* one in an up-trend, one in a down-trend, both with No Signal.
ShortHistoryUpAndDown ==
    /\ fn = "build_technical_matrix"
    /\ Len(args.all_pair_data) = 2
    /\ args.all_pair_data[1][2].kind = "DataFrame"
    /\ args.all_pair_data[1][2].bars = 251
    /\ args.all_pair_data[1][2].ud = 90
    /\ args.all_pair_data[2][2].kind = "DataFrame"
    /\ args.all_pair_data[2][2].bars = 50
    /\ args.all_pair_data[2][2].ud = 10
    /\ ret.rows[1].Trend = "up"
    /\ ret.rows[1].Signal = "No Signal"
    /\ ret.rows[2].Trend = "down"
    /\ ret.rows[2].Signal = "No Signal"

\* --------------------------------------------------------------------------
\* event_analysis.py: _classify_signal.  spot_ret and the vol change are in
\* hundredths of a percentage point, vix_chg in hundredths of an index point;
\* th is the record of the four keyword thresholds, in the same unit.
\* --------------------------------------------------------------------------

\* _classify_signal with rules (2) and (3) tested in the opposite order.
classify_signal_swapped(spot_ret, rv_1m_chg, vix_chg, th) ==
    IF spot_ret < -th.spot_threshold /\ rv_1m_chg > th.rv_rise_threshold /\ vix_chg > 0
        THEN "Bearish Cont."
    ELSE IF spot_ret > th.spot_threshold /\ rv_1m_chg < th.rv_fall_threshold
        THEN "Bullish Cont."
    ELSE IF spot_ret > th.spot_threshold /\ rv_1m_chg > th.rv_sharp_rise
        THEN "Bearish Contr."
    ELSE IF spot_ret < -th.spot_threshold /\ rv_1m_chg < th.rv_fall_threshold /\ vix_chg < 0
        THEN "Bullish Contr."
    ELSE "No Signal"

\* _classify_signal without the VIX conditions of rules (1) and (4).
classify_signal_no_vix(spot_ret, rv_1m_chg, vix_chg, th) ==
    IF spot_ret < -th.spot_threshold /\ rv_1m_chg > th.rv_rise_threshold
        THEN "Bearish Cont."
    ELSE IF spot_ret > th.spot_threshold /\ rv_1m_chg > th.rv_sharp_rise
        THEN "Bearish Contr."
    ELSE IF spot_ret > th.spot_threshold /\ rv_1m_chg < th.rv_fall_threshold
        THEN "Bullish Cont."
    ELSE IF spot_ret < -th.spot_threshold /\ rv_1m_chg < th.rv_fall_threshold
        THEN "Bullish Contr."
    ELSE "No Signal"

classify_signal(spot_ret, rv_1m_chg, vix_chg, th) ==
    IF spot_ret < -th.spot_threshold /\ rv_1m_chg > th.rv_rise_threshold /\ vix_chg > 0
        THEN "Bearish Cont."
    ELSE IF spot_ret > th.spot_threshold /\ rv_1m_chg > th.rv_sharp_rise
        THEN "Bearish Contr."
    ELSE IF spot_ret > th.spot_threshold /\ rv_1m_chg < th.rv_fall_threshold
        THEN "Bullish Cont."
    ELSE IF spot_ret < -th.spot_threshold /\ rv_1m_chg < th.rv_fall_threshold /\ vix_chg < 0
        THEN "Bullish Contr."
    ELSE "No Signal"

\* The keyword defaults of compute_event_signal (1.0, 0.5, 1.0, -0.2).
DefaultEventThresholds ==
    [spot_threshold |-> 100, rv_rise_threshold |-> 50,
     rv_sharp_rise |-> 100, rv_fall_threshold |-> -20]

\* The defaults and overrides; with a negative spot threshold or a fall
\* threshold above the sharp-rise threshold more than one rule can match.
EventThresholds ==
    [spot_threshold : {100, -50}, rv_rise_threshold : {50, 0},
     rv_sharp_rise : {100, 40}, rv_fall_threshold : {-20, 60}]

SpotReturns == {-200, -101, -100, -99, -50, 0, 49, 50, 51, 99, 100, 101, 200}

VolChanges == {-100, -21, -20, -19, 0, 1, 39, 40, 41, 49, 50, 51, 59, 60, 61, 99, 100, 101, 150}

VixChanges == {-100, -1, 0, 1, 100}

ClassifySignal ==
    /\ fn = "idle"
    /\ \E spot_ret \in SpotReturns, rv_1m_chg \in VolChanges,
          vix_chg \in VixChanges, th \in EventThresholds :
        /\ fn' = "_classify_signal"
        /\ args' = [spot_ret |-> spot_ret, rv_1m_chg |-> rv_1m_chg,
                    vix_chg |-> vix_chg, th |-> th]
        /\ ret' = classify_signal(spot_ret, rv_1m_chg, vix_chg, th)

\* float - float, NaN when either is.
NanSub(a, b) == IF notna(a) /\ notna(b) THEN Num(a.v - b.v) ELSE NaN

\* _safe_round(val, decimals) of a float already in hundredths.
safe_round(val, unit) == IF notna(val) THEN Some(Round(val.v, unit)) ELSE None

\* The bars compute_event_signal asks for, and one more.
MinEventBarsPlusOne == 30 + 1

MinEventBars == 30

empty_result ==
    [old_spot |-> None, new_spot |-> None, rv_1m |-> None, rv_1m_chg |-> None,
     rv_1w |-> None, rv_1w_chg |-> None, spot_return_pct |-> None,
     vix_level |-> None, vix_chg |-> None, signal |-> "N/A"]

\* series.iloc[-(k + 1)]
ILocOneEarlier(series, k) == series[Len(series) - k]

\* series.iloc[-k]
ILoc(series, k) == series[Len(series) + 1 - k]

\* compute_event_signal.  fx_close is in pips (positive), vix_close is None
\* or Some series in hundredths of a point; rv_1w and rv_1m are what
\* _realized_vol_pct returns for the windows 5 and 21, in hundredths of a
\* vol point.  spot_ret is the quotient (new - old) * 10000 / old of
\* hundredths of a per cent: _classify_signal gets its numerator and the
\* spot threshold times old_spot.  A NaN vol change fails every comparison
\* of _classify_signal, which leaves "No Signal".
compute_event_signal(fx_close, vix_close, rv_1w, rv_1m, th) ==
    IF Len(fx_close) < MinEventBars THEN empty_result
    ELSE
        LET rv_1w_now == ILoc(rv_1w, 1)
            rv_1m_now == ILoc(rv_1m, 1)
            rv_1w_chg == IF Len(rv_1w) >= 6 THEN NanSub(rv_1w_now, ILoc(rv_1w, 6))
                         ELSE Num(0)
            rv_1m_chg == IF Len(rv_1m) >= 6 THEN NanSub(rv_1m_now, ILoc(rv_1m, 6))
                         ELSE Num(0)
            old_spot == IF Len(fx_close) >= 6 THEN ILoc(fx_close, 6) ELSE fx_close[1]
            new_spot == ILoc(fx_close, 1)
            spot_ret == <<(new_spot - old_spot) * 10000, old_spot>>
            has_vix == vix_close.some /\ Len(vix_close.v) >= 6
            vix_level == IF has_vix THEN Some(ILoc(vix_close.v, 1)) ELSE None
            vix_chg == IF has_vix THEN ILoc(vix_close.v, 1) - ILoc(vix_close.v, 6) ELSE 0
            signal ==
                IF notna(rv_1m_chg)
                    THEN classify_signal(spot_ret[1], rv_1m_chg.v, vix_chg,
                             [th EXCEPT !.spot_threshold = @ * old_spot])
                    ELSE "No Signal"
        IN  [old_spot |-> Some(old_spot),
             new_spot |-> Some(new_spot),
             rv_1m |-> safe_round(rv_1m_now, 1),
             rv_1m_chg |-> safe_round(rv_1m_chg, 1),
             rv_1w |-> safe_round(rv_1w_now, 1),
             rv_1w_chg |-> safe_round(rv_1w_chg, 1),
             spot_return_pct |-> Some(Round(spot_ret[1], spot_ret[2]) \div spot_ret[2]),
             vix_level |-> IF vix_level.some /\ vix_level.v # 0
                               THEN Some(Round(vix_level.v, 10)) ELSE None,
             vix_chg |-> Some(vix_chg),
             signal |-> signal]

\* Close series in pips moving by `step` a bar.
EventPath(len, step) == SubSeq([i \in 1..len |-> 1000 + step * i], 1, len)

\* _realized_vol_pct(close, window): NaN until window log returns exist,
\* then the rolling deviation, here base + step * i at bar i.
realized_vol_pct(len, window, base, step) ==
    SubSeq([i \in 1..len |-> IF i <= window THEN NaN ELSE Num(base + step * i)], 1, len)

\* A pair's DataFrame for the event table: its close column and the two
\* realized-vol series of that column.
EventFrame(len, step, rv_step) ==
    [kind |-> "DataFrame", bars |-> len, close |-> EventPath(len, step),
     rv_1w |-> realized_vol_pct(len, 5, 900, rv_step),
     rv_1m |-> realized_vol_pct(len, 21, 1000, rv_step)]

EventLengths == {5, 6, 29, 30, 31}

PriceSteps == {-10, -4, -2, 0, 2, 4, 10}

VolSteps == {-30, -4, 0, 12, 30}

\* No VIX series, one too short to use, and usable ones.
VixSeries ==
    {NoneSeries, Some(EventPath(5, 10))} \cup {Some(EventPath(40, step)) : step \in {-10, 0, 10}}

ComputeEventSignal ==
    /\ fn = "idle"
    /\ \E len \in EventLengths, step \in PriceSteps, rv_step \in VolSteps,
          vix_close \in VixSeries,
          th \in {DefaultEventThresholds,
                  [DefaultEventThresholds EXCEPT !.spot_threshold = 50],
                  [DefaultEventThresholds EXCEPT !.spot_threshold = -200],
                  [DefaultEventThresholds EXCEPT !.rv_sharp_rise = 40,
                                                 !.rv_fall_threshold = 60]} :
        LET df == EventFrame(len, step, rv_step)
        IN  /\ fn' = "compute_event_signal"
            /\ args' = [fx_close |-> df.close, vix_close |-> vix_close,
                        rv_1w |-> df.rv_1w, rv_1m |-> df.rv_1m, th |-> th]
            /\ ret' = compute_event_signal(df.close, vix_close, df.rv_1w, df.rv_1m, th)

\* The pairs of the universe quoted with USD as base.
USD_BASE_PAIRS == {"USDJPY", "USDTHB"}

\* return_vs_usd_sign: -1 for the pairs quoted with USD as base.
return_vs_usd_sign(pair) == IF pair \in USD_BASE_PAIRS THEN -1 ELSE 1

\* The body of the loop of build_event_table for one pair.
event_row(pair, df, vix_close) ==
    LET result == IF Missing(df) THEN empty_result
                  ELSE compute_event_signal(df.close, vix_close, df.rv_1w, df.rv_1m,
                                            DefaultEventThresholds)
        sign == return_vs_usd_sign(pair)
        ret_vs_usd == IF result.spot_return_pct.some
                          THEN Some(result.spot_return_pct.v * sign) ELSE None
    IN  [Old_Spot |-> result.old_spot, New_Spot |-> result.new_spot,
         Vol_1m |-> result.rv_1m, Vol_1m_Chg |-> result.rv_1m_chg,
         Vol_1w |-> result.rv_1w, Vol_1w_Chg |-> result.rv_1w_chg,
         Ret_vs_USD |-> ret_vs_usd, Signal |-> result.signal]

\* vix_data is None or Some series (its close column); an empty one counts
\* as None.  set_index raises KeyError on the rows of an empty mapping.
build_event_table(all_pair_data, vix_data) ==
    LET vix_close == IF vix_data.some /\ Len(vix_data.v) > 0 THEN vix_data ELSE NoneSeries
    IN  IF Len(all_pair_data) = 0 THEN Raise("KeyError")
        ELSE [tag |-> "DataFrame",
              index |-> [i \in 1..Len(all_pair_data) |-> all_pair_data[i][1]],
              rows |-> [i \in 1..Len(all_pair_data) |->
                           event_row(all_pair_data[i][1], all_pair_data[i][2], vix_close)]]

EventData ==
    {NoData, EventFrame(0, 0, 0)}
        \cup {EventFrame(len, step, rv_step) :
                 len \in {29, 30}, step \in {-4, 4}, rv_step \in {-30, 30}}

BuildEventTable ==
    /\ fn = "idle"
    /\ \E all_pair_data \in {m \in Mappings(MaxPairs, EventData) : DistinctKeys(m)},
          vix_data \in {NoneSeries, Some(<<>>), Some(EventPath(40, 10))} :
        /\ fn' = "build_event_table"
        /\ args' = [all_pair_data |-> all_pair_data, vix_data |-> vix_data]
        /\ ret' = build_event_table(all_pair_data, vix_data)

NextEvent ==
    \/ ClassifySignal
    \/ ComputeEventSignal
    \/ BuildEventTable

SpecEvent == Idle /\ [][NextEvent]_vars

\* The four rules of the event table as predicates of a call's arguments.
EventRule(k) ==
    LET th == args.th
    IN  CASE k = 1 -> /\ args.spot_ret < -th.spot_threshold
                      /\ args.rv_1m_chg > th.rv_rise_threshold
                      /\ args.vix_chg > 0
          [] k = 2 -> /\ args.spot_ret > th.spot_threshold
                      /\ args.rv_1m_chg > th.rv_sharp_rise
          [] k = 3 -> /\ args.spot_ret > th.spot_threshold
                      /\ args.rv_1m_chg < th.rv_fall_threshold
          [] k = 4 -> /\ args.spot_ret < -th.spot_threshold
                      /\ args.rv_1m_chg < th.rv_fall_threshold
                      /\ args.vix_chg < 0

EventLabel(k) ==
    CASE k = 1 -> "Bearish Cont."
      [] k = 2 -> "Bearish Contr."
      [] k = 3 -> "Bullish Cont."
      [] k = 4 -> "Bullish Contr."

\* C3: _classify_signal returns the label of the lowest-numbered rule that
\* matches, and No Signal exactly when no rule matches, for every choice of
\* thresholds; the comparisons are strict.
EventFirstMatchWins ==
    fn = "_classify_signal" =>
        /\ \A k \in 1..4 :
             (EventRule(k) /\ \A j \in 1..(k - 1) : ~EventRule(j))
                 => ret = EventLabel(k)
        /\ (\A k \in 1..4 : ~EventRule(k)) = (ret = "No Signal")

\* A call in which rules (2) and (3) both match and rule (2) wins.
EventTwoRulesMatch ==
    /\ fn = "_classify_signal"
    /\ EventRule(2)
    /\ EventRule(3)
    /\ ~EventRule(1)
    /\ ret = "Bearish Contr."

\* A default-threshold call with the spot return exactly on -1.0: no rule.
EventOnThreshold ==
    /\ fn = "_classify_signal"
    /\ args.th = DefaultEventThresholds
    /\ args.spot_ret = -100
    /\ args.rv_1m_chg = 150
    /\ args.vix_chg = 1
    /\ ret = "No Signal"

\* The five labels of _classify_signal.
EventLabels ==
    {"Bearish Cont.", "Bearish Contr.", "Bullish Cont.", "Bullish Contr.", "No Signal"}

\* C20: compute_event_signal on fewer than 30 closes returns signal "N/A"
\* with the nine other fields absent, with or without a VIX series; on 30
\* closes or more it returns one of the five labels, never "N/A"; and
\* build_event_table gives a pair with None or empty data the all-absent
\* "N/A" row.
EventSignalNeedsThirtyBars ==
    /\ fn = "compute_event_signal" =>
        IF Len(args.fx_close) < 30
            THEN /\ ret.signal = "N/A"
                 /\ \A f \in DOMAIN ret \ {"signal"} : ~ret[f].some
                 /\ DOMAIN ret = {"old_spot", "new_spot", "rv_1w", "rv_1w_chg", "rv_1m",
                                  "rv_1m_chg", "spot_return_pct", "vix_level", "vix_chg",
                                  "signal"}
            ELSE ret.signal \in EventLabels
    /\ (fn = "build_event_table" /\ ret.tag = "DataFrame") =>
        \A i \in 1..Len(args.all_pair_data) :
            LET df == args.all_pair_data[i][2]
                row == ret.rows[i]
            IN  (df.kind = "None" \/ df.bars = 0) =>
                    /\ row.Signal = "N/A"
                    /\ \A f \in DOMAIN row \ {"Signal"} : ~row[f].some

\* 29 closes and a usable VIX series.
EventSignalOfTwentyNineBars ==
    /\ fn = "compute_event_signal"
    /\ Len(args.fx_close) = 29
    /\ args.vix_close.some
    /\ Len(args.vix_close.v) = 40
    /\ ret = empty_result

\* 30 closes: a label other than No Signal.
EventSignalOfThirtyBars ==
    /\ fn = "compute_event_signal"
    /\ Len(args.fx_close) = 30
    /\ ret.signal = "Bearish Cont."

\* A table with a data-less pair next to a pair with a signal.
EventTableWithEmptyPair ==
    /\ fn = "build_event_table"
    /\ Len(args.all_pair_data) = 2
    /\ args.all_pair_data[1][2] = EventFrame(0, 0, 0)
    /\ ret.rows[1].Signal = "N/A"
    /\ ret.rows[2].Signal \in EventLabels \ {"No Signal"}

\* The deltas of compute_event_signal measured against the bar `back`
\* bars before the last one: both realized-vol changes, the old spot with
\* the 1-week return, and the VIX change when the series is usable.
EventDeltasAgainst(back) ==
    (fn = "compute_event_signal" /\ Len(args.fx_close) >= 30) =>
        LET n == Len(args.fx_close)
            old == args.fx_close[n - back]
            new == args.fx_close[n]
            rv_1w_chg == NanSub(args.rv_1w[n], args.rv_1w[n - back])
            rv_1m_chg == NanSub(args.rv_1m[n], args.rv_1m[n - back])
        IN  /\ ret.rv_1w_chg = safe_round(rv_1w_chg, 1)
            /\ ret.rv_1m_chg = safe_round(rv_1m_chg, 1)
            /\ ret.old_spot = Some(old)
            /\ ret.new_spot = Some(new)
            /\ ret.spot_return_pct = Some(RoundQuotient(<<(new - old) * 100, old>>, 100))
            /\ (args.vix_close.some /\ Len(args.vix_close.v) >= 6) =>
                   LET vix == args.vix_close.v
                   IN  ret.vix_chg = Some(vix[Len(vix)] - vix[Len(vix) - back])

\* C24: with at least 30 bars the week-over-week deltas rv_1w_chg and
\* rv_1m_chg are the realized-vol value at the last bar minus the value 5
\* bars before the last bar (position last - 5, the sixth value from the
\* end), and the 1-week spot return and the VIX delta are measured against
\* the close at that same bar.
EventDeltasFiveBarsBack == EventDeltasAgainst(5)

\* C24 as stated: the earlier value is the one at position last - 6.
EventDeltasSixBarsBack == EventDeltasAgainst(6)

\* 31 bars with moving price, vol and VIX: five steps of each.
EventDeltasOfMovingSeries ==
    /\ fn = "compute_event_signal"
    /\ Len(args.fx_close) = 31
    /\ args.fx_close[31] - args.fx_close[30] = 4
    /\ args.vix_close.some
    /\ ret.old_spot = Some(args.fx_close[26])
    /\ ret.rv_1m_chg = Some(150)
    /\ ret.rv_1w_chg = Some(150)
    /\ ret.vix_chg = Some(50)

\* compute_event_signal got no usable VIX series.
NoUsableVix == ~args.vix_close.some \/ Len(args.vix_close.v) < 6

\* Without a usable VIX series vix_chg is 0 and the signal is No Signal,
\* Bearish Contrarian or Bullish Continuation; under the given condition on
\* the thresholds a week with a negative spot return has No Signal.
EventWithoutVix(Sound(_)) ==
    (fn = "compute_event_signal" /\ Len(args.fx_close) >= 30 /\ NoUsableVix) =>
        /\ ret.vix_chg = Some(0)
        /\ ~ret.vix_level.some
        /\ ret.signal \in {"No Signal", "Bearish Contr.", "Bullish Cont."}
        /\ (Sound(args.th) /\ ILoc(args.fx_close, 1) < ILoc(args.fx_close, 6))
               => ret.signal = "No Signal"

NonNegativeSpotThreshold(th) == th.spot_threshold >= 0

AnyThresholds(th) == TRUE

\* C30: with no usable volatility-index series (absent, or fewer than 6
\* bars) vix_chg is 0.0 and the signal is No Signal, Bearish Contrarian or
\* Bullish Continuation, for every price path and every threshold setting;
\* a week with a negative spot return produces no signal whenever the spot
\* threshold is not negative.
EventWithoutVixNoDownSignal == EventWithoutVix(NonNegativeSpotThreshold)

\* C30 as stated: a week with a negative spot return never produces a
\* signal, whatever the thresholds.
EventWithoutVixAnyThresholds == EventWithoutVix(AnyThresholds)

\* A falling week without VIX whose vol change would match rule (1).
EventFallingWeekWithoutVix ==
    /\ fn = "compute_event_signal"
    /\ Len(args.fx_close) = 30
    /\ ~args.vix_close.some
    /\ args.th = DefaultEventThresholds
    /\ ret.spot_return_pct.v < -100
    /\ ret.rv_1m_chg.v > 50
    /\ ret.signal = "No Signal"

\* A negative spot threshold: a falling week labeled Bearish Contrarian.
EventFallingWeekNegativeThreshold ==
    /\ fn = "compute_event_signal"
    /\ NoUsableVix
    /\ args.th.spot_threshold < 0
    /\ ret.signal = "Bearish Contr."
    /\ ret.spot_return_pct.some
    /\ ret.spot_return_pct.v < 0

\* --------------------------------------------------------------------------
\* report/generator.py: ReportGenerator.  The cache gives, for every pair of
\* the universe, None or a DataFrame.
\* --------------------------------------------------------------------------

\* _load_all_daily over the first k pairs of ALL_FX_PAIRS: the dict of the
\* pairs whose cached frame is neither None nor empty.
RECURSIVE load_all_daily(_, _)
load_all_daily(cache, k) ==
    IF k = 0 THEN <<>>
    ELSE LET result == load_all_daily(cache, k - 1)
             df == cache[k]
         IN  IF ~Missing(df) THEN Append(result, <<Universe[k], df>>) ELSE result

generate_technical_matrix(cache) ==
    build_technical_matrix(load_all_daily(cache, Len(Universe)))

generate_event_table(cache, vix) ==
    build_event_table(load_all_daily(cache, Len(Universe)), vix)

TechCaches ==
    [1..Len(Universe) -> {NoData, DataFrame(0, 1), DataFrame(49, 1), DataFrame(252, 1)}]

EventCaches ==
    [1..Len(Universe) -> {NoData, EventFrame(0, 0, 0), EventFrame(29, 4, 30),
                          EventFrame(30, 4, 30)}]

GenerateTechnicalMatrix ==
    /\ fn = "idle"
    /\ \E cache \in TechCaches :
        /\ fn' = "generate_technical_matrix"
        /\ args' = [cache |-> cache]
        /\ ret' = generate_technical_matrix(cache)

GenerateEventTable ==
    /\ fn = "idle"
    /\ \E cache \in EventCaches, vix \in {NoneSeries, Some(EventPath(40, 10))} :
        /\ fn' = "generate_event_table"
        /\ args' = [cache |-> cache, vix |-> vix]
        /\ ret' = generate_event_table(cache, vix)

NextReport ==
    \/ GenerateTechnicalMatrix
    \/ GenerateEventTable

SpecReport == Idle /\ [][NextReport]_vars

\* The "not applicable" row of the table the call builds.
ReportNotApplicableRow ==
    IF fn = "generate_technical_matrix" THEN not_applicable_row
    ELSE event_row(Universe[1], NoData, NoneSeries)

\* C15: the technical matrix and the event table of ReportGenerator hold a
\* row for every instrument of the universe; an instrument without cached
\* data has the "not applicable" row, and the report is produced whatever
\* the data of the instruments.
ReportRowPerInstrument ==
    fn \in {"generate_technical_matrix", "generate_event_table"} =>
        /\ ret.tag = "DataFrame"
        /\ \A k \in 1..Len(Universe) :
            \E i \in 1..Len(ret.index) :
                /\ ret.index[i] = Universe[k]
                /\ Missing(args.cache[k]) => ret.rows[i] = ReportNotApplicableRow

\* An instrument without cached data is left out of the matrix.
ReportDropsDataLessInstrument ==
    /\ fn = "generate_technical_matrix"
    /\ args.cache[1] = NoData
    /\ ret.tag = "DataFrame"
    /\ \A i \in 1..Len(ret.index) : ret.index[i] # Universe[1]

\* With no cached data at all the report is not produced.
ReportAbortsOnEmptyCache ==
    /\ fn = "generate_event_table"
    /\ \A k \in 1..Len(Universe) : args.cache[k] = NoData
    /\ ret = Raise("KeyError")

\* --------------------------------------------------------------------------
\* indicators.py: percentile_rank and rsi.  Prices and history values are
\* integers; the results are quotients.
\* --------------------------------------------------------------------------

\* history.dropna()
DropNa(history) == SelectSeq(history, notna)

\* percentile_rank counting the history values at or below value.
percentile_rank_le(value, history) ==
    LET valid == DropNa(history)
        below == {i \in 1..Len(valid) : valid[i].v <= value}
    IN  IF Len(valid) = 0 THEN <<50, 1>>
        ELSE <<Cardinality(below) * 100, Len(valid)>>

percentile_rank(value, history) ==
    LET valid == DropNa(history)
        below == {i \in 1..Len(valid) : valid[i].v < value}
    IN  IF Len(valid) = 0 THEN <<50, 1>>
        ELSE <<Cardinality(below) * 100, Len(valid)>>

HistoryLen == 4

HistoryValues == {NaN, Num(1), Num(2), Num(3)}

Histories == UNION {[1..n -> HistoryValues] : n \in 0..HistoryLen}

RankedValues == 0..4

PercentileRank ==
    /\ fn = "idle"
    /\ \E value \in RankedValues, history \in Histories :
        /\ fn' = "percentile_rank"
        /\ args' = [value |-> value, history |-> history]
        /\ ret' = percentile_rank(value, history)

\* 1e-12, the stand-in of a zero average loss, is held as 1 / EpsInverse
\* with an EpsInverse that fits the integers of the checker.
EpsInverse == 1000

\* ewm(alpha = 1 / period, adjust=False).mean() at bar i of a series whose
\* bar 1 is NaN, times period^(i - 2): the first value is x[2] and every
\* later one ((period - 1) * previous + x[i]) / period.
RECURSIVE ewm_scaled(_, _, _)
ewm_scaled(x, period, i) ==
    IF i = 2 THEN x[2]
    ELSE (period - 1) * ewm_scaled(x, period, i - 1) + x[i] * (period ^ (i - 2))

\* rsi at bar i >= 2 without the two masks of lines 130-133.
rsi_unmasked(close, period, i) ==
    LET gain == [j \in 1..Len(close) |-> IF j = 1 THEN 0
                                         ELSE IF close[j] > close[j - 1]
                                             THEN close[j] - close[j - 1] ELSE 0]
        loss == [j \in 1..Len(close) |-> IF j = 1 THEN 0
                                         ELSE IF close[j] < close[j - 1]
                                             THEN close[j - 1] - close[j] ELSE 0]
        scale == period ^ (i - 2)
        avg_gain == <<ewm_scaled(gain, period, i), scale>>
        avg_loss == <<ewm_scaled(loss, period, i), scale>>
        avg_loss_safe == IF avg_loss[1] # 0 THEN avg_loss ELSE <<1, EpsInverse>>
        rs == <<avg_gain[1] * avg_loss_safe[2], avg_gain[2] * avg_loss_safe[1]>>
    IN  <<100 * rs[1], rs[2] + rs[1]>>

\* rsi at bar i >= 2: delta, gain and loss are NaN at bar 1 and the two
\* averages start at bar 2.  100 - 100 / (1 + rs) is 100 * rs / (1 + rs).
rsi_at(close, period, i) ==
    LET gain == [j \in 1..Len(close) |-> IF j = 1 THEN 0
                                         ELSE IF close[j] > close[j - 1]
                                             THEN close[j] - close[j - 1] ELSE 0]
        loss == [j \in 1..Len(close) |-> IF j = 1 THEN 0
                                         ELSE IF close[j] < close[j - 1]
                                             THEN close[j - 1] - close[j] ELSE 0]
        scale == period ^ (i - 2)
        avg_gain == <<ewm_scaled(gain, period, i), scale>>
        avg_loss == <<ewm_scaled(loss, period, i), scale>>
        avg_loss_safe == IF avg_loss[1] # 0 THEN avg_loss ELSE <<1, EpsInverse>>
        rs == <<avg_gain[1] * avg_loss_safe[2], avg_gain[2] * avg_loss_safe[1]>>
        rsi_val == <<100 * rs[1], rs[2] + rs[1]>>
        flat_mask == avg_gain[1] = 0 /\ avg_loss[1] = 0
        up_only_mask == avg_loss[1] = 0 /\ avg_gain[1] > 0
    IN  IF up_only_mask THEN <<100, 1>>
        ELSE IF flat_mask THEN <<50, 1>>
        ELSE rsi_val

\* rsi(close, period): the series of its values, NaN at the first bar.
rsi(close, period) ==
    SubSeq([i \in 1..Len(close) |-> IF i = 1 THEN NaN ELSE Num(rsi_at(close, period, i))],
           1, Len(close))

RsiCloses == UNION {[1..n -> 1..3] : n \in 0..4}

RsiPeriods == {2, 14}

Rsi ==
    /\ fn = "idle"
    /\ \E close \in RsiCloses, period \in RsiPeriods :
        /\ fn' = "rsi"
        /\ args' = [close |-> close, period |-> period]
        /\ ret' = rsi(close, period)

NextIndicators ==
    \/ PercentileRank
    \/ Rsi

SpecIndicators == Idle /\ [][NextIndicators]_vars

\* C18: percentile_rank is 100 times the share of the non-missing history
\* values strictly below value: in [0, 100], 0 for a value at or below all
\* of them, 100 for a value above all of them, non-decreasing in value, and
\* 50 when the history has no non-missing value.
PercentileRankShare ==
    fn = "percentile_rank" =>
        LET present == {i \in 1..Len(args.history) : ~args.history[i].nan}
            below == {i \in present : args.history[i].v < args.value}
        IN  IF present = {} THEN ret = <<50, 1>>
            ELSE /\ RatEq(ret, <<100 * Cardinality(below), Cardinality(present)>>)
                 /\ RatLe(<<0, 1>>, ret)
                 /\ RatLe(ret, <<100, 1>>)
                 /\ (\A i \in present : args.value <= args.history[i].v)
                        => RatEq(ret, <<0, 1>>)
                 /\ (\A i \in present : args.value > args.history[i].v)
                        => RatEq(ret, <<100, 1>>)
                 /\ \A higher \in RankedValues :
                        higher >= args.value
                            => RatLe(ret, percentile_rank(higher, args.history))

\* A value equal to one history value, with a missing value in the history.
PercentileRankOfTie ==
    /\ fn = "percentile_rank"
    /\ args.value = 2
    /\ args.history = <<Num(1), NaN, Num(2), Num(3)>>
    /\ ret = <<100, 3>>

\* C19: at every bar where rsi is defined (every bar but the first) the
\* value is 50 if all prices so far are equal, 100 if there has been a rise
\* and no fall so far, and in [0, 100] in every case; no quotient has a
\* zero denominator.
RsiEdgeCases ==
    fn = "rsi" =>
        /\ Len(ret) = Len(args.close)
        /\ \A i \in 2..Len(args.close) :
            LET rise == \E j \in 2..i : args.close[j] > args.close[j - 1]
                fall == \E j \in 2..i : args.close[j] < args.close[j - 1]
            IN  /\ notna(ret[i])
                /\ ret[i].v[2] # 0
                /\ (~rise /\ ~fall) => ret[i].v = <<50, 1>>
                /\ (rise /\ ~fall) => ret[i].v = <<100, 1>>
                /\ RatLe(<<0, 1>>, ret[i].v)
                /\ RatLe(ret[i].v, <<100, 1>>)

\* A rise followed by flat bars: 100 at every bar from the rise on, 50
\* before it.
RsiRiseThenFlat ==
    /\ fn = "rsi"
    /\ args.period = 14
    /\ args.close = <<1, 1, 2, 2>>
    /\ ret[2].v = <<50, 1>>
    /\ ret[3].v = <<100, 1>>
    /\ ret[4].v = <<100, 1>>

\* A fall after a rise: strictly between 0 and 100.
RsiMixed ==
    /\ fn = "rsi"
    /\ args.close = <<1, 2, 1>>
    /\ RatLt(<<0, 1>>, ret[3].v)
    /\ RatLt(ret[3].v, <<100, 1>>)

\* --------------------------------------------------------------------------
\* pca_core.py.  Eigenvalues are integers in tenths; a variance share and an
\* effective dimensionality are quotients, kept exact.
\* --------------------------------------------------------------------------

MaxAssets == 3

MaxComponents == 4

\* Complete rows of returns_df on both sides of the 30-row requirement.
RowCounts == {0, 29, 30}

\* Rows of returns_df that hold a missing value.
NanRowCounts == {0, 2}

EigenValues == -1..2

\* What np.linalg.eigh hands back for n assets: one eigenvalue per column of
\* the eigenvector matrix; column j of that matrix is named by its index j.
Spectra == UNION {[1..n -> EigenValues] : n \in 0..MaxAssets}

\* Spectra of frames with more columns than a report retains components:
\* four and six assets against the defaults n_components=3 (pca_fx.py:118)
\* and n_components=5 (pca_etf.py:56).
WideSpectra ==
    {<<2, 2, 2, 1>>, <<2, 1, 1, 1>>, <<1, 1, 1, 1>>, <<2, 2, 2, -1>>, <<2, 2, 1, 0>>,
     <<1, 1, 1, 1, 1, 0>>, <<2, 2, 1, 1, 0, -1>>}

IndexOrders(n) == {p \in [1..n -> 1..n] : \A i, j \in 1..n : p[i] = p[j] => i = j}

\* np.argsort(eigenvalues): the index orders that sort ascending; the order
\* among equal eigenvalues is whatever the sort kind produces.
argsort(ev) ==
    {p \in IndexOrders(Len(ev)) : \A i \in 1..(Len(ev) - 1) : ev[p[i]] <= ev[p[i + 1]]}

Reverse(p) == [i \in 1..Len(p) |-> p[Len(p) + 1 - i]]

\* np.maximum(x, 0.0)
Clip(x) == IF x < 0 THEN 0 ELSE x

\* np.cumsum over quotients.
RECURSIVE cumsum(_)
cumsum(q) ==
    IF Len(q) = 0 THEN <<>>
    ELSE IF Len(q) = 1 THEN q
    ELSE LET head == cumsum(SubSeq(q, 1, Len(q) - 1))
         IN  Append(head, RatAdd(head[Len(head)], q[Len(q)]))

\* A returns frame: its complete rows, its rows with a missing value and its
\* columns.
ReturnsFrame(complete, with_nan, columns) ==
    [complete |-> complete, with_nan |-> with_nan, columns |-> columns]

\* DataFrame.dropna() keeping every row.
dropna_keep_all(df) == [df EXCEPT !.complete = df.complete + df.with_nan]

\* DataFrame.dropna(): the rows without a missing value remain.
dropna(df) == [df EXCEPT !.with_nan = 0]

\* len(df)
FrameLen(df) == df.complete + df.with_nan

\* DataFrame.empty
FrameEmpty(df) == FrameLen(df) = 0 \/ df.columns = 0

\* pca_on_correlation keeping argsort's ascending order (the [::-1] dropped).
pca_on_correlation_ascending(returns_df, eigh, order, n_components) ==
    LET clean == dropna(returns_df)
    IN  IF FrameLen(clean) < 30 \/ clean.columns < 2 THEN [tag |-> "None"]
        ELSE
            LET n == clean.columns
                idx == order
                eigenvalues == [i \in 1..n |-> Clip(eigh[idx[i]])]
                k == Min(n_components, n)
                total_var == SeqSum(eigenvalues)
                var_explained == [i \in 1..k |-> <<eigenvalues[i], total_var>>]
            IN  IF total_var = 0 THEN [tag |-> "None"]
                ELSE [tag |-> "result",
                      eigenvalues |-> SubSeq(eigenvalues, 1, k),
                      loadings |-> SubSeq(idx, 1, k),
                      variance_explained |-> var_explained,
                      cumulative_variance |-> cumsum(var_explained),
                      n_assets |-> n]

\* pca_on_correlation dividing by the total of the retained eigenvalues.
pca_on_correlation_retained_total(returns_df, eigh, order, n_components) ==
    LET clean == dropna(returns_df)
    IN  IF FrameLen(clean) < 30 \/ clean.columns < 2 THEN [tag |-> "None"]
        ELSE
            LET n == clean.columns
                idx == Reverse(order)
                eigenvalues == [i \in 1..n |-> Clip(eigh[idx[i]])]
                k == Min(n_components, n)
                total_var == SeqSum(SubSeq(eigenvalues, 1, k))
                var_explained == [i \in 1..k |-> <<eigenvalues[i], total_var>>]
            IN  IF total_var = 0 THEN [tag |-> "None"]
                ELSE [tag |-> "result",
                      eigenvalues |-> SubSeq(eigenvalues, 1, k),
                      loadings |-> SubSeq(idx, 1, k),
                      variance_explained |-> var_explained,
                      cumulative_variance |-> cumsum(var_explained),
                      n_assets |-> n]

\* pca_on_correlation handing back every eigenvalue (the [:k] dropped).
pca_on_correlation_all_eigenvalues(returns_df, eigh, order, n_components) ==
    LET clean == dropna(returns_df)
    IN  IF FrameLen(clean) < 30 \/ clean.columns < 2 THEN [tag |-> "None"]
        ELSE
            LET n == clean.columns
                idx == Reverse(order)
                eigenvalues == [i \in 1..n |-> Clip(eigh[idx[i]])]
                k == Min(n_components, n)
                total_var == SeqSum(eigenvalues)
                var_explained == [i \in 1..k |-> <<eigenvalues[i], total_var>>]
            IN  IF total_var = 0 THEN [tag |-> "None"]
                ELSE [tag |-> "result",
                      eigenvalues |-> eigenvalues,
                      loadings |-> SubSeq(idx, 1, k),
                      variance_explained |-> var_explained,
                      cumulative_variance |-> cumsum(var_explained),
                      n_assets |-> n]

\* eigh holds the eigenvalues np.linalg.eigh finds for the correlation matrix
\* of the clean frame (one per column), order the outcome of np.argsort on
\* them.  loadings[i] names the eigenvector column that became loading
\* column PCi.
pca_on_correlation(returns_df, eigh, order, n_components) ==
    LET clean == dropna(returns_df)
    IN  IF FrameLen(clean) < 30 \/ clean.columns < 2 THEN [tag |-> "None"]
        ELSE
            LET n == clean.columns
                idx == Reverse(order)
                eigenvalues == [i \in 1..n |-> Clip(eigh[idx[i]])]
                k == Min(n_components, n)
                total_var == SeqSum(eigenvalues)
                var_explained == [i \in 1..k |-> <<eigenvalues[i], total_var>>]
            IN  IF total_var = 0 THEN [tag |-> "None"]
                ELSE [tag |-> "result",
                      eigenvalues |-> SubSeq(eigenvalues, 1, k),
                      loadings |-> SubSeq(idx, 1, k),
                      variance_explained |-> var_explained,
                      cumulative_variance |-> cumsum(var_explained),
                      n_assets |-> n]

PcaOnCorrelation ==
    /\ fn = "idle"
    /\ \E complete \in RowCounts, with_nan \in NanRowCounts, eigh \in Spectra,
          n_components \in 1..MaxComponents :
        \E order \in argsort(eigh) :
            LET returns_df == ReturnsFrame(complete, with_nan, Len(eigh))
            IN  /\ fn' = "pca_on_correlation"
                /\ args' = [returns_df |-> returns_df, eigh |-> eigh, order |-> order,
                            n_components |-> n_components]
                /\ ret' = pca_on_correlation(returns_df, eigh, order, n_components)

\* effective_dimensionality on the eigenvalues as given (np.maximum dropped).
effective_dimensionality_unclipped(eigenvalues) ==
    LET ev == eigenvalues
        total == SeqSum(ev)
    IN  IF total = 0 THEN <<0, 1>>
        ELSE <<total * total, SeqSum([i \in 1..Len(ev) |-> ev[i] * ev[i]])>>

\* effective_dimensionality: the participation ratio as a quotient.
effective_dimensionality(eigenvalues) ==
    LET ev == [i \in 1..Len(eigenvalues) |-> Clip(eigenvalues[i])]
        total == SeqSum(ev)
    IN  IF total = 0 THEN <<0, 1>>
        ELSE <<total * total, SeqSum([i \in 1..Len(ev) |-> ev[i] * ev[i]])>>

EffectiveDimensionality ==
    /\ fn = "idle"
    /\ \E eigenvalues \in Spectra :
        /\ fn' = "effective_dimensionality"
        /\ args' = [eigenvalues |-> eigenvalues]
        /\ ret' = effective_dimensionality(eigenvalues)

\* detect_regime: the PC1 share in hundredths, the effective dimensionality
\* and its threshold in hundredths.
detect_regime_ge(var_explained_pc1, eff_dim, pc1_threshold, dim_threshold) ==
    IF var_explained_pc1 >= pc1_threshold \/ eff_dim < dim_threshold
        THEN "Dimensionality Collapse"
        ELSE "Normal"

detect_regime(var_explained_pc1, eff_dim, pc1_threshold, dim_threshold) ==
    IF var_explained_pc1 > pc1_threshold \/ eff_dim < dim_threshold
        THEN "Dimensionality Collapse"
        ELSE "Normal"

\* The keyword defaults 0.60 and 3.0.
DefaultPc1Threshold == 60

DefaultDimThreshold == 300

EffDims == {0, 100, 199, 200, 201, 299, 300, 301, 500, 1000}

DetectRegime ==
    /\ fn = "idle"
    /\ \E pc1 \in 0..100, eff_dim \in EffDims,
          pc1_threshold \in {DefaultPc1Threshold, 50},
          dim_threshold \in {DefaultDimThreshold, 200} :
        /\ fn' = "detect_regime"
        /\ args' = [var_explained_pc1 |-> pc1, eff_dim |-> eff_dim,
                    pc1_threshold |-> pc1_threshold, dim_threshold |-> dim_threshold]
        /\ ret' = detect_regime(pc1, eff_dim, pc1_threshold, dim_threshold)

\* The keyword default window=120 of both report builders.
DefaultWindow == 120

\* The part both report builders share (pca_etf.py:67-80, pca_fx.py:129-142):
\* returns is the frame compute_*_log_returns built.  Both sides of each
\* comparison of detect_regime are brought to a common denominator.  The
\* entries that need the eigenvector values (top_loadings_per_pc; labels,
\* pc_scores and pc_zscores) are not held.
pca_report(returns, eigh, order, window, n_components, pc1_threshold, dim_threshold) ==
    IF FrameEmpty(returns) \/ returns.columns < 3 THEN [tag |-> "None"]
    ELSE
        LET result == pca_on_correlation(returns, eigh, order, n_components)
        IN  IF result.tag = "None" THEN [tag |-> "None"]
            ELSE
                LET eff_dim == effective_dimensionality(result.eigenvalues)
                    pc1 == result.variance_explained[1]
                    regime == detect_regime(100 * pc1[1], 100 * eff_dim[1],
                                            pc1_threshold * pc1[2],
                                            dim_threshold * eff_dim[2])
                IN  [tag |-> "result",
                     loadings |-> result.loadings,
                     eigenvalues |-> result.eigenvalues,
                     variance_explained |-> result.variance_explained,
                     cumulative_variance |-> result.cumulative_variance,
                     effective_dim |-> eff_dim,
                     regime |-> regime,
                     n_assets |-> result.n_assets,
                     window |-> window]

build_pca_etf_report(returns, eigh, order, window, n_components, pc1_threshold, dim_threshold) ==
    pca_report(returns, eigh, order, window, n_components, pc1_threshold, dim_threshold)

build_pca_fx_report(returns, eigh, order, window, n_components, pc1_threshold, dim_threshold) ==
    pca_report(returns, eigh, order, window, n_components, pc1_threshold, dim_threshold)

BuildPcaEtfReport ==
    /\ fn = "idle"
    /\ \E complete \in RowCounts, with_nan \in NanRowCounts, eigh \in Spectra \cup WideSpectra,
          n_components \in {2, 5}, dim_threshold \in {DefaultDimThreshold, 200} :
        \E order \in argsort(eigh) :
            LET returns == ReturnsFrame(complete, with_nan, Len(eigh))
            IN  /\ fn' = "build_pca_etf_report"
                /\ args' = [returns |-> returns, eigh |-> eigh, order |-> order,
                            n_components |-> n_components,
                            pc1_threshold |-> DefaultPc1Threshold,
                            dim_threshold |-> dim_threshold]
                /\ ret' = build_pca_etf_report(returns, eigh, order, DefaultWindow,
                                               n_components, DefaultPc1Threshold,
                                               dim_threshold)

BuildPcaFxReport ==
    /\ fn = "idle"
    /\ \E complete \in RowCounts, with_nan \in NanRowCounts, eigh \in Spectra \cup WideSpectra,
          n_components \in {2, 3}, dim_threshold \in {DefaultDimThreshold, 200} :
        \E order \in argsort(eigh) :
            LET returns == ReturnsFrame(complete, with_nan, Len(eigh))
            IN  /\ fn' = "build_pca_fx_report"
                /\ args' = [returns |-> returns, eigh |-> eigh, order |-> order,
                            n_components |-> n_components,
                            pc1_threshold |-> DefaultPc1Threshold,
                            dim_threshold |-> dim_threshold]
                /\ ret' = build_pca_fx_report(returns, eigh, order, DefaultWindow,
                                              n_components, DefaultPc1Threshold,
                                              dim_threshold)

\* interpret_fx_pcs with same_sign_ratio >= 0.6.
interpret_fx_pcs_ge(loadings_df) ==
    LET pc1 == loadings_df.PC1
        positive == Cardinality({i \in 1..Len(pc1) : pc1[i] > 0})
        negative == Cardinality({i \in 1..Len(pc1) : pc1[i] < 0})
        most == IF positive > negative THEN positive ELSE negative
        dollar == Len(pc1) > 0 /\ 10 * most >= 6 * Len(pc1)
    IN  [c \in loadings_df.columns |->
            CASE c = "PC1" -> IF dollar THEN "Dollar Factor" ELSE "Market Factor"
              [] c = "PC2" -> "Carry Factor"
              [] c = "PC3" -> "Regional / Momentum"]

\* interpret_fx_pcs: the dict of the labels.  loadings_df is held by the
\* set of its columns and by its PC1 column; same_sign_ratio > 0.6 is
\* 10 * count > 6 * len, and false for the NaN of a frame without rows.
interpret_fx_pcs(loadings_df) ==
    LET pc1 == loadings_df.PC1
        positive == Cardinality({i \in 1..Len(pc1) : pc1[i] > 0})
        negative == Cardinality({i \in 1..Len(pc1) : pc1[i] < 0})
        most == IF positive > negative THEN positive ELSE negative
        dollar == Len(pc1) > 0 /\ 10 * most > 6 * Len(pc1)
    IN  [c \in loadings_df.columns |->
            CASE c = "PC1" -> IF dollar THEN "Dollar Factor" ELSE "Market Factor"
              [] c = "PC2" -> "Carry Factor"
              [] c = "PC3" -> "Regional / Momentum"]

\* The PC1 columns of the calls: up to 5 loadings, by their signs.
Loadings == UNION {[1..n -> {-1, 0, 1}] : n \in 0..5}

InterpretFxPcs ==
    /\ fn = "idle"
    /\ \E columns \in SUBSET {"PC1", "PC2", "PC3"}, pc1 \in Loadings :
        /\ fn' = "interpret_fx_pcs"
        /\ args' = [loadings_df |-> [columns |-> columns, PC1 |-> pc1]]
        /\ ret' = interpret_fx_pcs(args'.loadings_df)

\* The close column of a symbol with `bars` daily bars up to the last
\* date.
PriceFrame(bars) ==
    [kind |-> "DataFrame", bars |-> bars,
     close |-> SubSeq([i \in 1..bars |-> 100 + ((i * 3) % 7)], 1, bars)]

\* The number of defined values of a column.
notna_sum(column) == Cardinality({i \in 1..Len(column) : notna(column[i])})

\* compute_etf_log_returns (sign_corrected = FALSE) and
\* compute_fx_log_returns (TRUE).  The frames end at the same date, so row
\* d of price_df has a price of a symbol when d is among the symbol's last
\* bars.  A return log(a / b) is held as the quotient <<a, b>>, its
\* negation as <<b, a>>.
log_returns_frame(data, window, sign_corrected) ==
    LET HasClose(item) == ~Missing(item[2])
        closes == SelectSeq(data, HasClose)
        rows == CHOOSE n \in {closes[c][2].bars : c \in 1..Len(closes)} :
                    \A c \in 1..Len(closes) : closes[c][2].bars <= n
        price(c, d) == LET df == closes[c][2]
                       IN  IF d > rows - df.bars
                               THEN Num(df.close[d - (rows - df.bars)]) ELSE NaN
        len == IF rows > window THEN window ELSE rows
        first == rows - len
        log_ratio(c, d) ==
            IF notna(price(c, d)) /\ notna(price(c, d - 1))
                THEN IF sign_corrected /\ return_vs_usd_sign(closes[c][1]) = -1
                         THEN Num(<<price(c, d - 1).v, price(c, d).v>>)
                         ELSE Num(<<price(c, d).v, price(c, d - 1).v>>)
                ELSE [nan |-> TRUE, v |-> <<0, 1>>]
        returns == [c \in 1..Len(closes) |->
                       [name |-> closes[c][1],
                        values |-> SubSeq([r \in 1..(len - 1) |-> log_ratio(c, first + r + 1)],
                                          1, len - 1)]]
        min_valid == ((len - 1) * 8) \div 10
        Valid(column) == notna_sum(column.values) >= min_valid
    IN  IF Len(closes) = 0 THEN [len |-> 0, columns |-> <<>>]
        ELSE [len |-> len - 1, columns |-> SelectSeq(returns, Valid)]

compute_etf_log_returns(etf_data, window) == log_returns_frame(etf_data, window, FALSE)

compute_fx_log_returns(fx_data, window) == log_returns_frame(fx_data, window, TRUE)

\* The calls: a window of 5 rows with frames around it, and the default
\* window with frames of 96, 97 and 130 bars.
LogReturnCalls ==
    {[window |-> 5, frames |-> {NoData} \cup {PriceFrame(b) : b \in {0, 1, 4, 5, 6, 9}}],
     [window |-> DefaultWindow,
      frames |-> {NoData} \cup {PriceFrame(b) : b \in {96, 97, 130}}]}

ComputeEtfLogReturns ==
    /\ fn = "idle"
    /\ \E call \in LogReturnCalls :
        \E etf_data \in {m \in Mappings(MaxPairs, call.frames) : DistinctKeys(m)} :
            /\ fn' = "compute_etf_log_returns"
            /\ args' = [data |-> etf_data, window |-> call.window]
            /\ ret' = compute_etf_log_returns(etf_data, call.window)

ComputeFxLogReturns ==
    /\ fn = "idle"
    /\ \E call \in LogReturnCalls :
        \E fx_data \in {m \in Mappings(MaxPairs, call.frames) : DistinctKeys(m)} :
            /\ fn' = "compute_fx_log_returns"
            /\ args' = [data |-> fx_data, window |-> call.window]
            /\ ret' = compute_fx_log_returns(fx_data, call.window)

NextPca ==
    \/ PcaOnCorrelation
    \/ EffectiveDimensionality
    \/ DetectRegime
    \/ BuildPcaEtfReport
    \/ BuildPcaFxReport
    \/ InterpretFxPcs
    \/ ComputeEtfLogReturns
    \/ ComputeFxLogReturns

SpecPca == Idle /\ [][NextPca]_vars

\* C9: detect_regime answers Dimensionality Collapse exactly when the PC1
\* share is strictly above its threshold or the effective dimensionality is
\* strictly below its threshold, and Normal otherwise; on both default
\* thresholds exactly (0.60, 3.0) the answer is Normal.
DetectRegimeStrict ==
    fn = "detect_regime" =>
        /\ ret \in {"Dimensionality Collapse", "Normal"}
        /\ (ret = "Dimensionality Collapse") =
               (\/ args.var_explained_pc1 > args.pc1_threshold
                \/ args.eff_dim < args.dim_threshold)
        /\ (/\ args.var_explained_pc1 = args.pc1_threshold
            /\ args.eff_dim = args.dim_threshold) => ret = "Normal"
        /\ (/\ args.var_explained_pc1 > DefaultPc1Threshold
            /\ args.pc1_threshold = DefaultPc1Threshold) => ret = "Dimensionality Collapse"

\* The borderline call detect_regime(0.60, 3.0) with the defaults.
DetectRegimeBorderline ==
    /\ fn = "detect_regime"
    /\ args.var_explained_pc1 = DefaultPc1Threshold
    /\ args.eff_dim = DefaultDimThreshold
    /\ args.pc1_threshold = DefaultPc1Threshold
    /\ args.dim_threshold = DefaultDimThreshold
    /\ ret = "Normal"

\* C10: the eigenvalues pca_on_correlation returns are non-negative and
\* non-increasing, there are k = min(n_components, assets) of them, they
\* are the k largest clipped values of the spectrum, and loading column i
\* is the eigenvector of returned eigenvalue i.
PcaEigenvaluesSorted ==
    (fn = "pca_on_correlation" /\ ret.tag = "result") =>
        LET ev == ret.eigenvalues
            k == Min(args.n_components, Len(args.eigh))
            kept == {ret.loadings[i] : i \in 1..k}
        IN  /\ Len(ev) = k
            /\ Len(ret.loadings) = k
            /\ \A i \in 1..k : ev[i] >= 0
            /\ \A i \in 1..(k - 1) : ev[i] >= ev[i + 1]
            /\ \A i \in 1..k : ev[i] = Clip(args.eigh[ret.loadings[i]])
            /\ Cardinality(kept) = k
            /\ \A j \in (1..Len(args.eigh)) \ kept : Clip(args.eigh[j]) <= ev[k]

\* A result from an unsorted spectrum with a negative eigenvalue, truncated
\* to fewer components than assets.
PcaUnsortedNegativeSpectrum ==
    /\ fn = "pca_on_correlation"
    /\ ret.tag = "result"
    /\ Len(args.eigh) = 3
    /\ args.eigh[1] = 1
    /\ args.eigh[2] = -1
    /\ args.eigh[3] = 2
    /\ args.n_components = 2
    /\ ret.eigenvalues = <<2, 1>>
    /\ ret.loadings = <<3, 1>>

\* The total of the clipped eigenvalues of the spectrum of a call.
ClippedTotal == SeqSum([j \in 1..Len(args.eigh) |-> Clip(args.eigh[j])])

PcaNoneWhenInsufficient ==
    /\ fn = "pca_on_correlation" =>
        LET insufficient ==
                \/ args.returns_df.complete < 30
                \/ args.returns_df.columns < 2
                \/ ClippedTotal = 0
        IN  ret.tag = (IF insufficient THEN "None" ELSE "result")
    /\ fn \in {"build_pca_etf_report", "build_pca_fx_report"} =>
        (pca_on_correlation(args.returns, args.eigh, args.order,
                            args.n_components).tag = "None"
            => ret.tag = "None")

\* 31 rows of which 2 hold a missing value, 3 assets, a positive total: the
\* 29 rows left after dropna are too few.
PcaNoneAfterDropna ==
    /\ fn = "pca_on_correlation"
    /\ args.returns_df.complete = 29
    /\ args.returns_df.with_nan = 2
    /\ args.returns_df.columns = 3
    /\ ClippedTotal > 0
    /\ ret.tag = "None"

\* A report builder handed 3 assets and rows enough, whose eigenvalues clip
\* to a zero total.
PcaReportNoneOnZeroTotal ==
    /\ fn = "build_pca_fx_report"
    /\ args.returns.complete = 30
    /\ args.returns.columns = 3
    /\ ClippedTotal = 0
    /\ ret.tag = "None"

RetainedOfSpectrum ==
    LET k == Len(ret.eigenvalues)
        n == Len(args.eigh)
        kept == {ret.loadings[i] : i \in 1..k}
    IN  /\ k = Min(args.n_components, n)
        /\ Len(ret.loadings) = k
        /\ Cardinality(kept) = k
        /\ \A i \in 1..k : ret.eigenvalues[i] = Clip(args.eigh[ret.loadings[i]])
        /\ \A i \in 1..k : \A j \in (1..n) \ kept :
               ret.eigenvalues[i] >= Clip(args.eigh[j])

FxReportCollapseOnRetained ==
    /\ fn = "build_pca_fx_report"
    /\ args.n_components = 3
    /\ args.dim_threshold = DefaultDimThreshold
    /\ ret.tag = "result"
    /\ ret.n_assets = 4
    /\ ret.eigenvalues = <<2, 1, 1>>
    /\ ret.effective_dim = <<16, 6>>
    /\ ret.regime = "Dimensionality Collapse"

\* An ETF report on six assets with the default n_components = 5: the
\* effective dimensionality reaches the number of retained components.
EtfReportFiveOfSix ==
    /\ fn = "build_pca_etf_report"
    /\ args.n_components = 5
    /\ ret.tag = "result"
    /\ ret.n_assets = 6
    /\ Len(ret.eigenvalues) = 5
    /\ RatEq(ret.effective_dim, <<5, 1>>)

\* The labels of interpret_fx_pcs with a given text for PC3: PC1 is the
\* Dollar Factor exactly when more than 60% of its loadings are positive
\* or more than 60% negative, PC2 and PC3 have fixed labels, and only the
\* components of the loadings are labeled.
FxLabelsWith(third) ==
    fn = "interpret_fx_pcs" =>
        LET pc1 == args.loadings_df.PC1
            n == Len(pc1)
            positive == Cardinality({i \in 1..n : pc1[i] > 0})
            negative == Cardinality({i \in 1..n : pc1[i] < 0})
        IN  /\ DOMAIN ret = args.loadings_df.columns
            /\ "PC1" \in DOMAIN ret =>
                 /\ ret["PC1"] \in {"Dollar Factor", "Market Factor"}
                 /\ ret["PC1"] = "Dollar Factor"
                        <=> (100 * positive > 60 * n \/ 100 * negative > 60 * n)
            /\ "PC2" \in DOMAIN ret => ret["PC2"] = "Carry Factor"
            /\ "PC3" \in DOMAIN ret => ret["PC3"] = third

SymbolsWithClose(data) == {data[i][1] : i \in {j \in 1..Len(data) : ~Missing(data[j][2])}}

\* The defined returns a symbol has among the return rows: one per pair of
\* consecutive bars of the symbol inside the last `window` rows.
DefinedReturns(data, window, symbol) ==
    LET most == CHOOSE n \in {data[i][2].bars : i \in {j \in 1..Len(data) : ~Missing(data[j][2])}} :
                    \A i \in 1..Len(data) : ~Missing(data[i][2]) => data[i][2].bars <= n
        len == Min(most, window)
        k == CHOOSE i \in 1..Len(data) : data[i][1] = symbol
    IN  Min(data[k][2].bars, len) - 1

\* C23: the return matrix is built from the last `window` price rows
\* (window - 1 return rows when there are more price rows than that) and
\* keeps exactly the columns with coverage of at least 80%: a symbol with a
\* close column is retained if and only if its returns are defined in at
\* least 80% of the return rows.
LogReturnsCoverage ==
    fn \in {"compute_etf_log_returns", "compute_fx_log_returns"} =>
        LET symbols == SymbolsWithClose(args.data)
            retained == {ret.columns[c].name : c \in 1..Len(ret.columns)}
        IN  /\ retained \subseteq symbols
            /\ \A c \in 1..Len(ret.columns) : Len(ret.columns[c].values) = ret.len
            /\ (\E i \in 1..Len(args.data) :
                    ~Missing(args.data[i][2]) /\ args.data[i][2].bars > args.window)
                   => ret.len = args.window - 1
            /\ \A symbol \in symbols :
                   symbol \in retained
                       <=> 100 * DefinedReturns(args.data, args.window, symbol) >= 80 * ret.len

\* What the code keeps: the columns with at least int(0.8 * rows) defined
\* returns, the product rounded down.
LogReturnsCoverageRoundedDown ==
    fn \in {"compute_etf_log_returns", "compute_fx_log_returns"} =>
        LET symbols == SymbolsWithClose(args.data)
            retained == {ret.columns[c].name : c \in 1..Len(ret.columns)}
        IN  /\ \A c \in 1..Len(ret.columns) :
                   notna_sum(ret.columns[c].values)
                       = DefinedReturns(args.data, args.window, ret.columns[c].name)
            /\ \A symbol \in symbols :
                   symbol \in retained
                       <=> DefinedReturns(args.data, args.window, symbol) >= (8 * ret.len) \div 10

\* The default window: a symbol of 96 bars next to one of 130 bars is
\* retained with 95 defined returns of 119, less than 80%.
LogReturnsKeepsBelowEighty ==
    /\ fn = "compute_etf_log_returns"
    /\ args.window = DefaultWindow
    /\ ret.len = 119
    /\ \E c \in 1..Len(ret.columns) :
        /\ notna_sum(ret.columns[c].values) = 95
        /\ 100 * 95 < 80 * ret.len

\* --------------------------------------------------------------------------
\* timezone.py: the hour buckets.  An index is the sequence of the hours of
\* day (UTC) of its timestamps.
\* --------------------------------------------------------------------------

TIMEZONE_ZONES ==
    <<[name |-> "America", start_h |-> 13, end_h |-> 0],
      [name |-> "Europe", start_h |-> 8, end_h |-> 13],
      [name |-> "Asia", start_h |-> 0, end_h |-> 8]>>

GRANULAR_SLOTS ==
    <<[name |-> "8am-11am", start_h |-> 8, end_h |-> 11],
      [name |-> "11am-2pm", start_h |-> 11, end_h |-> 14],
      [name |-> "2pm-5pm", start_h |-> 14, end_h |-> 17],
      [name |-> "5pm-8pm", start_h |-> 17, end_h |-> 20],
      [name |-> "8pm-11pm", start_h |-> 20, end_h |-> 23],
      [name |-> "11pm-2am", start_h |-> 23, end_h |-> 2],
      [name |-> "2am-5am", start_h |-> 2, end_h |-> 5],
      [name |-> "5am-8am", start_h |-> 5, end_h |-> 8]>>

\* _hour_mask with the end hour included in the bucket.
hour_mask_closed(index, start_h, end_h) ==
    IF start_h < end_h
        THEN [i \in 1..Len(index) |-> index[i] >= start_h /\ index[i] <= end_h]
        ELSE [i \in 1..Len(index) |-> index[i] >= start_h \/ index[i] <= end_h]

hour_mask(index, start_h, end_h) ==
    IF start_h < end_h
        THEN [i \in 1..Len(index) |-> index[i] >= start_h /\ index[i] < end_h]
        ELSE [i \in 1..Len(index) |-> index[i] >= start_h \/ index[i] < end_h]

Hours == 0..23

\* One day of hourly bars whose first bar is at hour `first`.
DayIndex(first) == [i \in 1..24 |-> (first + i - 1) % 24]

\* A single call of _hour_mask with any pair of hours.
HourMask ==
    /\ fn = "idle"
    /\ \E first \in {0, 13}, start_h \in Hours, end_h \in Hours :
        /\ fn' = "_hour_mask"
        /\ args' = [index |-> DayIndex(first), start_h |-> start_h, end_h |-> end_h]
        /\ ret' = hour_mask(DayIndex(first), start_h, end_h)

\* The masks the loop of build_timezone_heatmap computes, one per slot.
GranularMasks ==
    /\ fn = "idle"
    /\ \E first \in Hours :
        /\ fn' = "granular_masks"
        /\ args' = [index |-> DayIndex(first)]
        /\ ret' = [k \in 1..Len(GRANULAR_SLOTS) |->
                      hour_mask(DayIndex(first), GRANULAR_SLOTS[k].start_h,
                                GRANULAR_SLOTS[k].end_h)]

\* The masks the loop of compute_timezone_returns computes, one per zone.
ZoneMasks ==
    /\ fn = "idle"
    /\ \E first \in Hours :
        /\ fn' = "zone_masks"
        /\ args' = [index |-> DayIndex(first)]
        /\ ret' = [k \in 1..Len(TIMEZONE_ZONES) |->
                      hour_mask(DayIndex(first), TIMEZONE_ZONES[k].start_h,
                                TIMEZONE_ZONES[k].end_h)]

\* An hourly DataFrame: the hours of day of its index and its close column.
\* Bar i is at hour first + i - 1 and closes at 100 + (i * step) % mod.
HourlyFrame(first, len, step, mod) ==
    [kind |-> "DataFrame", bars |-> len,
     index |-> SubSeq([i \in 1..len |-> (first + i - 1) % 24], 1, len),
     close |-> SubSeq([i \in 1..len |-> 100 + ((i * step) % mod)], 1, len)]

\* hourly_df.loc[mask]: the rows the mask selects, in order.
RECURSIVE Loc(_, _, _)
Loc(column, mask, k) ==
    IF k > Len(column) THEN <<>>
    ELSE IF mask[k] THEN <<column[k]>> \o Loc(column, mask, k + 1)
    ELSE Loc(column, mask, k + 1)

\* (1 + returns).prod() over subset["close"].pct_change().dropna(): the
\* product of close[k] / close[k - 1] over the rows a..b of the subset, by
\* halves.
RECURSIVE ProdOnePlusReturns(_, _, _)
ProdOnePlusReturns(subset, a, b) ==
    IF a > b THEN <<1, 1>>
    ELSE IF a = b THEN Lowest(<<subset[a], subset[a - 1]>>)
    ELSE LET mid == (a + b) \div 2
         IN  RatMul(ProdOnePlusReturns(subset, a, mid),
                    ProdOnePlusReturns(subset, mid + 1, b))

\* _cumulative_return, as a quotient in percent.
cumulative_return(hourly_df, mask) ==
    LET subset == Loc(hourly_df.close, mask, 1)
        prod == ProdOnePlusReturns(subset, 2, Len(subset))
        cum == <<prod[1] - prod[2], prod[2]>>
    IN  IF Len(subset) < 2 THEN <<0, 1>>
        ELSE <<cum[1] * 100, cum[2]>>

\* hourly_df.iloc[-(n_rows + 1):] in place of hourly_df.iloc[-n_rows:].
recent_rows_one_more(hourly_df, n_rows) ==
    LET len == Len(hourly_df.close)
    IN  IF len > n_rows + 1
            THEN [hourly_df EXCEPT !.bars = n_rows + 1,
                                   !.index = SubSeq(@, len - n_rows, len),
                                   !.close = SubSeq(@, len - n_rows, len)]
            ELSE hourly_df

\* hourly_df.iloc[-n_rows:] if len(hourly_df) > n_rows else hourly_df
recent_rows(hourly_df, n_rows) ==
    LET len == Len(hourly_df.close)
    IN  IF len > n_rows
            THEN [hourly_df EXCEPT !.bars = n_rows,
                                   !.index = SubSeq(@, len - n_rows + 1, len),
                                   !.close = SubSeq(@, len - n_rows + 1, len)]
            ELSE hourly_df

\* compute_timezone_returns: one value per zone, in thousandths of a
\* percent.
compute_timezone_returns(hourly_df, lookback_days) ==
    IF Missing(hourly_df) THEN [k \in 1..Len(TIMEZONE_ZONES) |-> 0]
    ELSE LET recent == recent_rows(hourly_df, lookback_days * 24)
         IN  [k \in 1..Len(TIMEZONE_ZONES) |->
                 RoundQuotient(
                     cumulative_return(recent,
                         hour_mask(recent.index, TIMEZONE_ZONES[k].start_h,
                                   TIMEZONE_ZONES[k].end_h)),
                     1000)]

\* The body of the loop of build_timezone_heatmap for one pair: one value
\* per slot, in hundredths of a percent.
heatmap_row(pair, df, lookback_days) ==
    IF Missing(df) THEN [k \in 1..Len(GRANULAR_SLOTS) |-> 0]
    ELSE LET recent == recent_rows(df, lookback_days * 24)
             sign == return_vs_usd_sign(pair)
         IN  [k \in 1..Len(GRANULAR_SLOTS) |->
                 LET r == cumulative_return(recent,
                              hour_mask(recent.index, GRANULAR_SLOTS[k].start_h,
                                        GRANULAR_SLOTS[k].end_h))
                 IN  RoundQuotient(<<r[1] * sign, r[2]>>, 100)]

\* set_index raises KeyError on the rows of an empty mapping.
build_timezone_heatmap(all_pair_hourly, lookback_days) ==
    IF Len(all_pair_hourly) = 0 THEN Raise("KeyError")
    ELSE [tag |-> "DataFrame",
          index |-> [i \in 1..Len(all_pair_hourly) |-> all_pair_hourly[i][1]],
          rows |-> [i \in 1..Len(all_pair_hourly) |->
                       heatmap_row(all_pair_hourly[i][1], all_pair_hourly[i][2],
                                   lookback_days)]]

\* lookback_days of the calls: the callers pass 1, 5, 21 or 63.
LookbackDays == {1, 2}

HourlyFrames ==
    {HourlyFrame(first, len, step, mod) :
        first \in {0, 13}, len \in {0, 1, 9, 24, 25, 30, 49, 50},
        step \in {1, 3}, mod \in {7, 11}}

HeatmapFrames ==
    {HourlyFrame(first, len, 3, 7) : first \in {0, 13}, len \in {0, 25, 50}}

\* A single call of _cumulative_return with the mask of a zone.
CumulativeReturn ==
    /\ fn = "idle"
    /\ \E hourly_df \in HourlyFrames, k \in 1..Len(TIMEZONE_ZONES) :
        LET mask == hour_mask(hourly_df.index, TIMEZONE_ZONES[k].start_h,
                              TIMEZONE_ZONES[k].end_h)
        IN  /\ fn' = "_cumulative_return"
            /\ args' = [hourly_df |-> hourly_df, mask |-> mask]
            /\ ret' = cumulative_return(hourly_df, mask)

ComputeTimezoneReturns ==
    /\ fn = "idle"
    /\ \E hourly_df \in HourlyFrames \cup {NoData}, lookback_days \in LookbackDays :
        /\ fn' = "compute_timezone_returns"
        /\ args' = [hourly_df |-> hourly_df, lookback_days |-> lookback_days]
        /\ ret' = compute_timezone_returns(hourly_df, lookback_days)

BuildTimezoneHeatmap ==
    /\ fn = "idle"
    /\ \E all_pair_hourly \in
              {m \in Mappings(MaxPairs, HeatmapFrames \cup {NoData}) : DistinctKeys(m)},
          lookback_days \in LookbackDays :
        /\ fn' = "build_timezone_heatmap"
        /\ args' = [all_pair_hourly |-> all_pair_hourly, lookback_days |-> lookback_days]
        /\ ret' = build_timezone_heatmap(all_pair_hourly, lookback_days)

NextTimezone ==
    \/ HourMask
    \/ GranularMasks
    \/ ZoneMasks
    \/ CumulativeReturn
    \/ ComputeTimezoneReturns
    \/ BuildTimezoneHeatmap

SpecTimezone == Idle /\ [][NextTimezone]_vars

\* The hours of day a mask selects from the index it was computed on.
Selected(mask) == {args.index[i] : i \in {j \in 1..Len(args.index) : mask[j]}}

ZoneByName(name) == CHOOSE k \in 1..Len(TIMEZONE_ZONES) : TIMEZONE_ZONES[k].name = name

\* C8: both bucket tables partition the day.  Over a day of hourly bars every
\* bar is selected by exactly one of the eight granular slots and by exactly
\* one of the three zones; every slot selects exactly 3 hours, the 11pm-2am
\* slot exactly {23, 0, 1}; Asia, Europe and America select exactly 0..7,
\* 8..12 and 13..23; a single mask selects the half-open interval
\* [start, end), wrapping midnight when start >= end.
BucketsPartitionDay ==
    /\ fn = "granular_masks" =>
         /\ Len(ret) = 8
         /\ \A i \in 1..Len(args.index) :
                Cardinality({k \in 1..Len(ret) : ret[k][i]}) = 1
         /\ \A k \in 1..Len(ret) : Cardinality(Selected(ret[k])) = 3
         /\ \A k \in 1..Len(ret) :
                GRANULAR_SLOTS[k].name = "11pm-2am" => Selected(ret[k]) = {23, 0, 1}
    /\ fn = "zone_masks" =>
         /\ Len(ret) = 3
         /\ \A i \in 1..Len(args.index) :
                Cardinality({k \in 1..Len(ret) : ret[k][i]}) = 1
         /\ Selected(ret[ZoneByName("Asia")]) = 0..7
         /\ Selected(ret[ZoneByName("Europe")]) = 8..12
         /\ Selected(ret[ZoneByName("America")]) = 13..23
    /\ fn = "_hour_mask" =>
         Selected(ret) =
             IF args.start_h < args.end_h
                 THEN args.start_h..(args.end_h - 1)
                 ELSE (args.start_h..23) \cup (0..(args.end_h - 1))

\* The slot masks over a day of bars that starts at 23:00, inside the
\* wrapping slot.
GranularMasksFrom23 ==
    /\ fn = "granular_masks"
    /\ args.index[1] = 23
    /\ ret[6][1]
    /\ ret[6][2]
    /\ ret[6][3]
    /\ ~ret[6][4]

\* The hour h lies in the bucket: [start_h, end_h), wrapping midnight when
\* start_h >= end_h.
InBucket(h, bucket) ==
    IF bucket.start_h < bucket.end_h
        THEN h >= bucket.start_h /\ h < bucket.end_h
        ELSE h >= bucket.start_h \/ h < bucket.end_h

\* The positions of the most recent lookback_days * 24 rows of df.
WindowRows(df, lookback_days) ==
    {i \in 1..Len(df.close) : i > Len(df.close) - lookback_days * 24}

\* The rows of df older than its most recent lookback_days * 24 rows.
OlderRows(df, lookback_days) == (1..Len(df.close)) \ WindowRows(df, lookback_days)

BucketRows(df, lookback_days, bucket) ==
    {i \in WindowRows(df, lookback_days) : InBucket(df.index[i], bucket)}

\* The return from the first to the last bar of the bucket inside the
\* window, in percent times sign, rounded to 1 / scale.
BucketValue(df, lookback_days, bucket, sign, scale) ==
    LET rows == BucketRows(df, lookback_days, bucket)
        first == CHOOSE i \in rows : \A j \in rows : i <= j
        last == CHOOSE i \in rows : \A j \in rows : i >= j
    IN  IF Cardinality(rows) < 2 THEN 0
        ELSE RoundQuotient(<<(df.close[last] - df.close[first]) * 100 * sign,
                             df.close[first]>>, scale)

\* df without its row j.
WithoutRow(df, j) ==
    [df EXCEPT !.bars = @ - 1,
               !.index = SubSeq(@, 1, j - 1) \o SubSeq(@, j + 1, Len(@)),
               !.close = SubSeq(@, 1, j - 1) \o SubSeq(@, j + 1, Len(@))]

\* df with another close in its row j.
WithClose(df, j, close) == [df EXCEPT !.close[j] = close]

TimezoneBucketOfOneBar ==
    /\ fn = "compute_timezone_returns"
    /\ ~Missing(args.hourly_df)
    /\ Len(args.hourly_df.close) = 9
    /\ args.hourly_df.index[1] = 0
    /\ ret[ZoneByName("Asia")] # 0
    /\ ret[ZoneByName("Europe")] = 0
    /\ ret[ZoneByName("America")] = 0

\* A heatmap of a pair without data next to a pair with more rows than
\* the window.
TimezoneHeatmapRows ==
    /\ fn = "build_timezone_heatmap"
    /\ ret.tag = "DataFrame"
    /\ \E i, j \in 1..Len(args.all_pair_hourly) :
        /\ Missing(args.all_pair_hourly[i][2])
        /\ ~Missing(args.all_pair_hourly[j][2])
        /\ OlderRows(args.all_pair_hourly[j][2], args.lookback_days) # {}
        /\ \E k \in 1..Len(GRANULAR_SLOTS) : ret.rows[j][k] # 0

\* The compounded hourly returns of the bars a..b the mask selects, each
\* bar's close relative to the close of the row before it in hourly_df, as
\* a quotient (the first row has no hourly return).
RECURSIVE HourlyCompounded(_, _, _, _)
HourlyCompounded(close, mask, a, b) ==
    IF a > b THEN <<1, 1>>
    ELSE IF a = b THEN IF mask[a] THEN Lowest(<<close[a], close[a - 1]>>) ELSE <<1, 1>>
    ELSE LET mid == (a + b) \div 2
         IN  RatMul(HourlyCompounded(close, mask, a, mid),
                    HourlyCompounded(close, mask, mid + 1, b))

\* The bars the mask selects.
MaskedRows(mask) == {i \in 1..Len(mask) : mask[i]}

\* C25: for a bucket of at least 2 bars _cumulative_return is the
\* compounded product of the hourly returns of the bars of the bucket, in
\* percent: price changes during hours outside the bucket do not enter.
CumulativeReturnOfBucketHours ==
    (fn = "_cumulative_return" /\ Cardinality(MaskedRows(args.mask)) >= 2) =>
        LET prod == HourlyCompounded(args.hourly_df.close, args.mask, 2, Len(args.mask))
        IN  RatEq(ret, <<(prod[1] - prod[2]) * 100, prod[2]>>)

\* What _cumulative_return gives: the change from the first to the last
\* selected bar, with everything that happened in between.
CumulativeReturnFirstToLast ==
    (fn = "_cumulative_return" /\ Cardinality(MaskedRows(args.mask)) >= 2) =>
        LET rows == MaskedRows(args.mask)
            first == CHOOSE i \in rows : \A j \in rows : i <= j
            last == CHOOSE i \in rows : \A j \in rows : i >= j
            close == args.hourly_df.close
        IN  RatEq(ret, <<(close[last] - close[first]) * 100, close[first]>>)

\* Two days of bars, a bucket of two separate runs of hours: the return
\* differs from the compounded hourly returns of the bucket.
CumulativeReturnSpansOtherHours ==
    /\ fn = "_cumulative_return"
    /\ Len(args.mask) = 49
    /\ \E i, j, k \in 1..Len(args.mask) :
        i < j /\ j < k /\ args.mask[i] /\ ~args.mask[j] /\ args.mask[k]
    /\ LET prod == HourlyCompounded(args.hourly_df.close, args.mask, 2, Len(args.mask))
       IN  ~RatEq(ret, <<(prod[1] - prod[2]) * 100, prod[2]>>)

\* --------------------------------------------------------------------------
\* cars.py.  z-scores and their cut-offs are integers in thousandths; a
\* correlation is in ten-thousandths before rounding and in thousandths
\* after.
\* --------------------------------------------------------------------------

\* lookback_weeks of _weekly_zscore.
LookbackWeeks == 52

\* _weekly_zscore: weeks is len(weekly_ret), z_last is z.iloc[-1].
weekly_zscore(weeks, z_last) ==
    IF weeks < LookbackWeeks THEN 0
    ELSE IF notna(z_last) THEN z_last.v
    ELSE 0

\* classify_regime with non-strict comparisons against the cut-offs.
classify_regime_le(equity, bond, commodity, cut) ==
    LET eq_z == weekly_zscore(equity.weeks, equity.z_last)
        bd_z == weekly_zscore(bond.weeks, bond.z_last)
        cm_z == weekly_zscore(commodity.weeks, commodity.z_last)
        is_shock == \/ eq_z <= cut.equity_shock_z
                    \/ bd_z <= cut.bond_shock_z
                    \/ cm_z <= cut.commodity_shock_z
    IN  [is_shock |-> is_shock,
         equity_z |-> Round(eq_z, 10),
         bond_z |-> Round(bd_z, 10),
         commodity_z |-> Round(cm_z, 10),
         regime |-> IF is_shock THEN "Shock" ELSE "Normal"]

\* Each proxy is [weeks, z_last]: the number of weekly returns of its close
\* series and the last value of their rolling z-score.
classify_regime(equity, bond, commodity, cut) ==
    LET eq_z == weekly_zscore(equity.weeks, equity.z_last)
        bd_z == weekly_zscore(bond.weeks, bond.z_last)
        cm_z == weekly_zscore(commodity.weeks, commodity.z_last)
        is_shock == \/ eq_z < cut.equity_shock_z
                    \/ bd_z < cut.bond_shock_z
                    \/ cm_z < cut.commodity_shock_z
    IN  [is_shock |-> is_shock,
         equity_z |-> Round(eq_z, 10),
         bond_z |-> Round(bd_z, 10),
         commodity_z |-> Round(cm_z, 10),
         regime |-> IF is_shock THEN "Shock" ELSE "Normal"]

\* Cut-offs with the commodity one at -3.0.
ShockCutoffsCommodityThree ==
    [equity_shock_z |-> -1000, bond_shock_z |-> -1000, commodity_shock_z |-> -3000]

\* The keyword defaults -1.0, -1.0 and -2.0.
DefaultShockCutoffs ==
    [equity_shock_z |-> -1000, bond_shock_z |-> -1000, commodity_shock_z |-> -2000]

ShockCutoffs ==
    [equity_shock_z : {-1000, -2000}, bond_shock_z : {-1000, 500},
     commodity_shock_z : {-2000, -1000}]

ZScores == {-2500, -2004, -2000, -1996, -1004, -1000, -996, 0, 2004, 2500}

Proxies ==
    [weeks : {LookbackWeeks - 1, LookbackWeeks},
     z_last : {NaN} \cup {Num(z) : z \in ZScores}]

ClassifyRegime ==
    /\ fn = "idle"
    /\ \E equity \in Proxies, bond \in Proxies, commodity \in Proxies,
          cut \in ShockCutoffs :
        /\ fn' = "classify_regime"
        /\ args' = [equity |-> equity, bond |-> bond, commodity |-> commodity,
                    cut |-> cut]
        /\ ret' = classify_regime(equity, bond, commodity, cut)

NextRegime == ClassifyRegime

SpecRegime == Idle /\ [][NextRegime]_vars

\* The z-score a proxy contributes, as the claim states it: 0.0 below 52
\* weekly returns (and for an undefined value), else the rolling z-score.
ContributedZ(proxy) ==
    IF proxy.weeks < 52 \/ proxy.z_last.nan THEN 0 ELSE proxy.z_last.v

\* C7: classify_regime says Shock exactly when the equity z-score is strictly
\* below equity_shock_z, or the bond z-score strictly below bond_shock_z, or
\* the commodity z-score strictly below commodity_shock_z, and Normal
\* otherwise; a proxy with fewer than 52 weekly returns contributes 0.0, so
\* with the default cut-offs a Shock always comes from a proxy with at least
\* 52 weekly returns.
ShockIffBelowCutoff ==
    fn = "classify_regime" =>
        LET eq_z == ContributedZ(args.equity)
            bd_z == ContributedZ(args.bond)
            cm_z == ContributedZ(args.commodity)
        IN  /\ ret.is_shock = (\/ eq_z < args.cut.equity_shock_z
                               \/ bd_z < args.cut.bond_shock_z
                               \/ cm_z < args.cut.commodity_shock_z)
            /\ ret.regime = (IF ret.is_shock THEN "Shock" ELSE "Normal")
            /\ (args.cut = DefaultShockCutoffs /\ ret.is_shock) =>
                   \/ args.equity.weeks >= 52 /\ args.equity.z_last.v < -1000
                   \/ args.bond.weeks >= 52 /\ args.bond.z_last.v < -1000
                   \/ args.commodity.weeks >= 52 /\ args.commodity.z_last.v < -2000

\* Default cut-offs, the equity z-score exactly on -1.0, the bond proxy one
\* week short with a crash in it: Normal.
RegimeOnCutoffIsNormal ==
    /\ fn = "classify_regime"
    /\ args.cut = DefaultShockCutoffs
    /\ args.equity = [weeks |-> 52, z_last |-> Num(-1000)]
    /\ args.bond = [weeks |-> 51, z_last |-> Num(-2500)]
    /\ args.commodity = [weeks |-> 52, z_last |-> Num(-2000)]
    /\ ~ret.is_shock
    /\ ret.regime = "Normal"

\* C26: under the default cut-offs the fields of the record classify_regime
\* returns agree: regime is "Shock" exactly when is_shock is true, and
\* is_shock is true exactly when the reported equity_z < -1.0 or the
\* reported bond_z < -1.0 or the reported commodity_z < -2.0.
RegimeRecordAgrees ==
    (fn = "classify_regime" /\ args.cut = DefaultShockCutoffs) =>
        /\ ret.regime = "Shock" <=> ret.is_shock
        /\ ret.is_shock <=> (\/ ret.equity_z < -1000
                             \/ ret.bond_z < -1000
                             \/ ret.commodity_z < -2000)

\* What holds of the record: a reported z-score below its cut-off implies
\* is_shock, and is_shock implies a reported z-score at or below its
\* cut-off.
RegimeRecordUpToRounding ==
    (fn = "classify_regime" /\ args.cut = DefaultShockCutoffs) =>
        /\ ret.regime = "Shock" <=> ret.is_shock
        /\ (\/ ret.equity_z < -1000
            \/ ret.bond_z < -1000
            \/ ret.commodity_z < -2000) => ret.is_shock
        /\ ret.is_shock => (\/ ret.equity_z <= -1000
                            \/ ret.bond_z <= -1000
                            \/ ret.commodity_z <= -2000)

\* An equity z-score of -1.004: a Shock whose record reports equity_z =
\* -1.0 and no z-score below its cut-off.
RegimeShockReportedOnCutoff ==
    /\ fn = "classify_regime"
    /\ args.cut = DefaultShockCutoffs
    /\ args.equity = [weeks |-> 52, z_last |-> Num(-1004)]
    /\ ret.is_shock
    /\ ret.equity_z = -1000
    /\ ret.bond_z = 0
    /\ ret.commodity_z = 0

\* The ranked currencies, in the order of G10_PAIRS.
G10_CCY == <<"EUR", "JPY", "GBP", "CHF", "AUD", "CAD", "NZD", "NOK", "SEK">>

\* How many of them a ranking table holds.
NumCcy == 7

SAFE_HAVEN_JPY_ONLY == {"JPY"}

SAFE_HAVEN_CURRENCIES == {"JPY", "CHF"}

Factors == {"equity", "rates", "commodity"}

\* corr_window of compute_factor_rankings.
CorrWindow == 52

\* The values of a column over rows 1..n, as a list.
Column(f, n) == SubSeq(f, 1, n)

\* Series.rank(ascending=False).astype(int): a value's rank is the mean of
\* the positions its tie group occupies in descending order, cut to an int.
rank_descending(col) ==
    Column([i \in 1..Len(col) |->
               LET greater == Cardinality({j \in 1..Len(col) : col[j] > col[i]})
                   equal == Cardinality({j \in 1..Len(col) : col[j] = col[i]})
               IN  (2 * greater + equal + 1) \div 2],
           Len(col))

\* One correlation of a record: 0 for a pair without data, 0.0 when the
\* overlap with the proxy is not longer than the window or the rolling
\* correlation is NaN, else the correlation rounded to 3 decimals.
\* fx_weeks is the number of weekly returns of the pair (0: None or empty).
factor_corr(fx_weeks, proxy_weeks, raw) ==
    IF fx_weeks = 0 THEN 0
    ELSE IF ~(Min(fx_weeks, proxy_weeks) > CorrWindow) THEN 0
    ELSE IF notna(raw) THEN Round(raw.v, 10) \div 10
    ELSE 0

\* fx_weeks[i]: weekly returns of pair i; proxy_weeks[f]: weekly returns of
\* the proxy of factor f; raw[f][i]: last rolling correlation of pair i
\* with that proxy.
compute_factor_rankings(fx_weeks, proxy_weeks, raw) ==
    LET n == Len(fx_weeks)
        Corr(f) == Column([i \in 1..n |->
                              factor_corr(fx_weeks[i], proxy_weeks[f], raw[f][i])], n)
        corr == [equity |-> Corr("equity"), rates |-> Corr("rates"),
                 commodity |-> Corr("commodity")]
        rank == [equity |-> rank_descending(corr.equity),
                 rates |-> rank_descending(corr.rates),
                 commodity |-> rank_descending(corr.commodity)]
    IN  [i \in 1..n |->
            [Currency |-> G10_CCY[i],
             equity_corr |-> corr.equity[i],
             rates_corr |-> corr.rates[i],
             commodity_corr |-> corr.commodity[i],
             equity_rank |-> rank.equity[i],
             rates_rank |-> rank.rates[i],
             commodity_rank |-> rank.commodity[i]]]

\* A column of raw values over n rows: i * step modulo mod.  mod = 1 gives
\* all equal values, mod = n + 1 a strictly increasing column with step 1
\* and a strictly decreasing one with step n.
Pattern(step, mod, n) == Column([i \in 1..n |-> (i * step) % mod], n)

Patterns(n) == {Pattern(step, mod, n) : step \in {1, 2, n}, mod \in {1, 2, 3, n + 1}}

\* All pairs with a long history, or one pair without data, with a history
\* not longer than the window, or with an undefined correlation.
PairConditions(n) ==
    {[i \in 1..n |-> "ok"]} \cup
    {[i \in 1..n |-> IF i = k THEN c ELSE "ok"] : k \in 1..n, c \in {"empty", "short", "nan"}}

FxWeeks(cond) ==
    Column([i \in 1..Len(cond) |->
               CASE cond[i] = "empty" -> 0
                 [] cond[i] = "short" -> CorrWindow
                 [] OTHER -> CorrWindow + 1],
           Len(cond))

ProxyWeeks(short_proxy) ==
    [f \in Factors |-> IF f = short_proxy THEN CorrWindow ELSE CorrWindow + 1]

RawCorr(cond, scale, col) ==
    Column([i \in 1..Len(cond) |->
               IF cond[i] = "nan" THEN NaN ELSE Num(scale * col[i])],
           Len(cond))

ComputeFactorRankings ==
    /\ fn = "idle"
    /\ \E cond \in PairConditions(NumCcy), short_proxy \in Factors \cup {"none"},
          scale \in {4, 10},
          pe \in Patterns(NumCcy), pr \in Patterns(NumCcy), pc \in Patterns(NumCcy) :
        LET fx_weeks == FxWeeks(cond)
            proxy_weeks == ProxyWeeks(short_proxy)
            raw == [equity |-> RawCorr(cond, scale, pe),
                    rates |-> RawCorr(cond, scale, pr),
                    commodity |-> RawCorr(cond, scale, pc)]
        IN  /\ fn' = "compute_factor_rankings"
            /\ args' = [fx_weeks |-> fx_weeks, proxy_weeks |-> proxy_weeks, raw |-> raw]
            /\ ret' = compute_factor_rankings(fx_weeks, proxy_weeks, raw)

NextRankings == ComputeFactorRankings

SpecRankings == Idle /\ [][NextRankings]_vars

\* C1: every rank column of the table compute_factor_rankings returns is a
\* permutation of 1..N, whatever the correlations are (equal values and the
\* 0 defaults included).
RanksArePermutation ==
    fn = "compute_factor_rankings" =>
        /\ {ret[i].equity_rank : i \in 1..Len(ret)} = 1..Len(ret)
        /\ {ret[i].rates_rank : i \in 1..Len(ret)} = 1..Len(ret)
        /\ {ret[i].commodity_rank : i \in 1..Len(ret)} = 1..Len(ret)

\* The rank of a row in the column "<factor>_rank".
RankOf(row, factor) ==
    CASE factor = "equity" -> row.equity_rank
      [] factor = "rates" -> row.rates_rank
      [] factor = "commodity" -> row.commodity_rank

\* factor_rankings.sort_values(rank_col): the row numbers in ascending order
\* of the rank.  The order of rows with equal ranks is not fixed by the
\* default sort kind; tie names the order it leaves them in.
sort_values(table, factor, tie) ==
    LET n == Len(table)
        Before(j, i) ==
            \/ RankOf(table[j], factor) < RankOf(table[i], factor)
            \/ /\ RankOf(table[j], factor) = RankOf(table[i], factor)
               /\ IF tie = "stable" THEN j < i ELSE j > i
        Position(i) == 1 + Cardinality({j \in 1..n : Before(j, i)})
    IN  Column([p \in 1..n |-> CHOOSE i \in 1..n : Position(i) = p], n)

\* Python's `signal or label`.
Or(signal, label) == IF signal = "" THEN label ELSE signal

\* The label by position i (from 0) in the sorted table, with the bottom
\* three starting one row late.
base_signal_late(i, n_currencies) ==
    IF i < 3 THEN "Bullish"
    ELSE IF i > n_currencies - 3 THEN "Bearish"
    ELSE ""

\* The label by position i (from 0) in the sorted table of n_currencies.
base_signal(i, n_currencies) ==
    IF i < 3 THEN "Bullish"
    ELSE IF i >= n_currencies - 3 THEN "Bearish"
    ELSE ""

\* The overlay replacing the label instead of filling an empty one.
commodity_overlay_forced(signal, commodity_z, threshold, cm_rank) ==
    IF Abs(commodity_z) > threshold THEN
        IF commodity_z > threshold /\ cm_rank <= 3 THEN "Bullish"
        ELSE IF commodity_z < -threshold /\ cm_rank <= 3 THEN "Bearish"
        ELSE signal
    ELSE signal

\* The commodity overlay on one row's label.
commodity_overlay(signal, commodity_z, threshold, cm_rank) ==
    IF Abs(commodity_z) > threshold THEN
        IF commodity_z > threshold /\ cm_rank <= 3 THEN Or(signal, "Bullish")
        ELSE IF commodity_z < -threshold /\ cm_rank <= 3 THEN Or(signal, "Bearish")
        ELSE signal
    ELSE signal

\* One row of the signal table.
SignalRow(row, signal) ==
    [Currency |-> row.Currency, signal |-> signal, Equity |-> row.equity_rank,
     Rates |-> row.rates_rank, Commodity |-> row.commodity_rank]

\* tie is the order sort_values leaves rows of equal rank in.
generate_cars_signals(regime, factor_rankings, performing_factor, threshold, tie) ==
    LET n_currencies == Len(factor_rankings)
        ranked == sort_values(factor_rankings, performing_factor, tie)
        results ==
            IF regime.is_shock THEN
                [i \in 1..n_currencies |->
                    SignalRow(factor_rankings[i],
                              IF factor_rankings[i].Currency \in SAFE_HAVEN_CURRENCIES
                                  THEN "Bullish" ELSE "Bearish")]
            ELSE
                [p \in 1..n_currencies |->
                    LET row == factor_rankings[ranked[p]]
                    IN  SignalRow(row,
                                  commodity_overlay(base_signal(p - 1, n_currencies),
                                                    regime.commodity_z, threshold,
                                                    row.commodity_rank))]
    IN  [table |-> results,
         attrs |-> [regime |-> regime.regime,
                    performing_factor |->
                        IF regime.is_shock THEN "defensive" ELSE performing_factor,
                    equity_z |-> regime.equity_z,
                    bond_z |-> regime.bond_z,
                    commodity_z |-> regime.commodity_z]]

\* The rank columns compute_factor_rankings produces from the patterns.
RankColumns(n) == {rank_descending(p) : p \in Patterns(n)}

RankingTable(eq, rt, cm) ==
    [i \in 1..Len(eq) |->
        [Currency |-> G10_CCY[i], equity_rank |-> eq[i], rates_rank |-> rt[i],
         commodity_rank |-> cm[i]]]

\* commodity_overlay_threshold: the default 2.0 and an override.
DefaultOverlayThreshold == 2000

OverlayThresholds == {DefaultOverlayThreshold, 1000}

CommodityZs == {-2500, -2000, 0, 2000, 2500}

Regimes ==
    {[is_shock |-> sh, equity_z |-> 0, bond_z |-> 0, commodity_z |-> cz,
      regime |-> IF sh THEN "Shock" ELSE "Normal"] : sh \in BOOLEAN, cz \in CommodityZs}

GenerateCarsSignals ==
    /\ fn = "idle"
    /\ \E n \in (NumCcy - 2)..NumCcy :
       \E eq \in RankColumns(n), rt \in RankColumns(n), cm \in RankColumns(n),
          regime \in Regimes, performing_factor \in Factors,
          threshold \in OverlayThresholds, tie \in {"stable", "reversed"} :
        /\ fn' = "generate_cars_signals"
        /\ args' = [regime |-> regime, factor_rankings |-> RankingTable(eq, rt, cm),
                    performing_factor |-> performing_factor,
                    commodity_overlay_threshold |-> threshold]
        /\ ret' = generate_cars_signals(regime, RankingTable(eq, rt, cm),
                                        performing_factor, threshold, tie)

\* A proxy's DataFrame for build_cars_report: None, empty, or its close
\* column held by the number of its weekly returns and the last value of
\* their rolling z-score.
ProxyFrame(weeks, z_last) ==
    [kind |-> "DataFrame", bars |-> weeks + 1, weeks |-> weeks, z_last |-> z_last]

EmptyFrame == [kind |-> "DataFrame", bars |-> 0]

\* build_cars_report: None without one of the proxies, else the signals of
\* the performing factor "rates" with the default cut-offs and overlay
\* threshold.  fx_weeks and raw are what compute_factor_rankings computes
\* on fx_pair_data; tie is the order sort_values leaves equal ranks in.
build_cars_report(fx_weeks, raw, equity_data, bond_data, commodity_data, tie) ==
    IF Missing(equity_data) \/ Missing(bond_data) \/ Missing(commodity_data)
        THEN [tag |-> "None"]
    ELSE LET regime == classify_regime(equity_data, bond_data, commodity_data,
                                       DefaultShockCutoffs)
             rankings ==
                 compute_factor_rankings(fx_weeks,
                     [equity |-> equity_data.weeks, rates |-> bond_data.weeks,
                      commodity |-> commodity_data.weeks],
                     raw)
             signals == generate_cars_signals(regime, Column(rankings, Len(fx_weeks)),
                                              "rates", DefaultOverlayThreshold, tie)
         IN  [tag |-> "DataFrame", table |-> signals.table, attrs |-> signals.attrs]

\* The proxies of the calls: the equity and bond proxy calm or just below
\* their cut-off, the commodity proxy around -2.0 and 2.0.
CalmProxies ==
    {NoData, EmptyFrame, ProxyFrame(CorrWindow + 1, Num(0)),
     ProxyFrame(CorrWindow + 1, Num(-1004))}

CommodityProxies ==
    {NoData, ProxyFrame(CorrWindow - 1, Num(-2500))}
        \cup {ProxyFrame(CorrWindow + 1, Num(z)) :
                 z \in {-2500, -2004, -2000, 0, 2000, 2004, 2500}}

BuildCarsReport ==
    /\ fn = "idle"
    /\ \E equity_data \in CalmProxies, bond_data \in CalmProxies,
          commodity_data \in CommodityProxies,
          pr \in {Pattern(1, NumCcy + 1, NumCcy), Pattern(NumCcy, NumCcy + 1, NumCcy),
                  Pattern(1, 3, NumCcy)},
          pc \in {Pattern(1, NumCcy + 1, NumCcy), Pattern(NumCcy, NumCcy + 1, NumCcy),
                  Pattern(2, 3, NumCcy)},
          tie \in {"stable", "reversed"} :
        LET cond == [i \in 1..NumCcy |-> "ok"]
            fx_weeks == FxWeeks(cond)
            raw == [equity |-> RawCorr(cond, 10, pr),
                    rates |-> RawCorr(cond, 10, pr),
                    commodity |-> RawCorr(cond, 10, pc)]
        IN  /\ fn' = "build_cars_report"
            /\ args' = [fx_weeks |-> fx_weeks, raw |-> raw, equity_data |-> equity_data,
                        bond_data |-> bond_data, commodity_data |-> commodity_data]
            /\ ret' = build_cars_report(fx_weeks, raw, equity_data, bond_data,
                                        commodity_data, tie)

NextSignals ==
    \/ GenerateCarsSignals
    \/ BuildCarsReport

SpecSignals == Idle /\ [][NextSignals]_vars

\* The rows of a returned signal table that carry a label.
Labeled(label) == {p \in 1..Len(ret.table) : ret.table[p].signal = label}

\* Every ranked currency has exactly one row in the returned table.
OneRowPerCurrency ==
    /\ Len(ret.table) = Len(args.factor_rankings)
    /\ \A i \in 1..Len(args.factor_rankings) :
           Cardinality({p \in 1..Len(ret.table) :
               ret.table[p].Currency = args.factor_rankings[i].Currency}) = 1

\* C4: in a Shock week JPY and CHF are Bullish and every other currency is
\* Bearish, whatever the ranks, the performing factor and the commodity
\* z-score are, and the table has exactly one row per ranked currency.
ShockIsDefensive ==
    (fn = "generate_cars_signals" /\ args.regime.is_shock) =>
        /\ OneRowPerCurrency
        /\ \A p \in 1..Len(ret.table) :
               ret.table[p].signal =
                   IF ret.table[p].Currency \in {"JPY", "CHF"} THEN "Bullish" ELSE "Bearish"

\* A Shock week with a commodity z-score beyond the overlay threshold and a
\* non-safe-haven currency of commodity rank 1..3: still Bearish.
ShockWithExtremeCommodity ==
    /\ fn = "generate_cars_signals"
    /\ args.regime.is_shock
    /\ args.regime.commodity_z > args.commodity_overlay_threshold
    /\ \E p \in 1..Len(ret.table) :
           /\ ret.table[p].Currency = "EUR"
           /\ ret.table[p].Commodity <= 3
           /\ ret.table[p].signal = "Bearish"
    /\ \E p \in 1..Len(ret.table) :
           /\ ret.table[p].Currency = "CHF"
           /\ ret.table[p].signal = "Bullish"

\* The rank by which a returned table was sorted.
SortedRank(p) ==
    CASE args.performing_factor = "equity" -> ret.table[p].Equity
      [] args.performing_factor = "rates" -> ret.table[p].Rates
      [] args.performing_factor = "commodity" -> ret.table[p].Commodity

\* C5: in a Normal week with at least 6 currencies and the overlay inactive
\* the table is in ascending order of the performing-factor rank, its first
\* three rows are Bullish, its last three Bearish and the rows between carry
\* no signal: exactly 3 Bullish and exactly 3 Bearish.
NormalTopBottomThree ==
    (/\ fn = "generate_cars_signals"
     /\ ~args.regime.is_shock
     /\ Len(args.factor_rankings) >= 6
     /\ Abs(args.regime.commodity_z) <= args.commodity_overlay_threshold) =>
        LET n == Len(ret.table)
        IN  /\ OneRowPerCurrency
            /\ \A p \in 1..(n - 1) : SortedRank(p) <= SortedRank(p + 1)
            /\ Labeled("Bullish") = 1..3
            /\ Labeled("Bearish") = (n - 2)..n
            /\ Labeled("") = 4..(n - 3)
            /\ Cardinality(Labeled("Bullish")) = 3
            /\ Cardinality(Labeled("Bearish")) = 3

\* A Normal week of seven currencies, the commodity z-score exactly on the
\* threshold: three Bullish, one without signal, three Bearish.
NormalWeekOfSeven ==
    /\ fn = "generate_cars_signals"
    /\ ~args.regime.is_shock
    /\ Len(args.factor_rankings) = 7
    /\ args.performing_factor = "rates"
    /\ args.regime.commodity_z = args.commodity_overlay_threshold
    /\ ret.table[3].signal = "Bullish"
    /\ ret.table[4].signal = ""
    /\ ret.table[4].Commodity <= 3
    /\ ret.table[5].signal = "Bearish"
    /\ ret.table[3].Rates < ret.table[4].Rates

CarsReportNeverOverlaysBearish ==
    (fn = "build_cars_report" /\ ret.tag = "DataFrame") =>
        LET n == Len(ret.table)
            cm_z == ContributedZ(args.commodity_data)
        IN  /\ cm_z < -2000 => ret.attrs.regime = "Shock"
            /\ ret.attrs.regime = "Shock" =>
                   \A p \in 1..n :
                       ret.table[p].signal =
                           IF ret.table[p].Currency \in SAFE_HAVEN_CURRENCIES
                               THEN "Bullish" ELSE "Bearish"
            /\ ret.attrs.regime = "Normal" =>
                   /\ ret.attrs.commodity_z >= -2000
                   /\ Labeled("Bearish") = (n - 2)..n
                   /\ \A p \in 4..(n - 3) :
                          ret.table[p].signal =
                              IF ret.attrs.commodity_z > 2000 /\ ret.table[p].Commodity <= 3
                                  THEN "Bullish" ELSE ""

\* A Normal week with commodity_z = 2.5: the overlay labels a middle row
\* Bullish.
CarsReportOverlaysBullish ==
    /\ fn = "build_cars_report"
    /\ ret.tag = "DataFrame"
    /\ ret.attrs.regime = "Normal"
    /\ ret.attrs.commodity_z = 2500
    /\ \E p \in 4..(Len(ret.table) - 3) :
           ret.table[p].Commodity <= 3 /\ ret.table[p].signal = "Bullish"

\* A commodity z-score of -2.5 with calm equity and bond proxies: a Shock
\* week, a currency of commodity rank <= 3 labeled as a safe haven.
CarsReportCommodityShock ==
    /\ fn = "build_cars_report"
    /\ ret.tag = "DataFrame"
    /\ args.equity_data.z_last = Num(0)
    /\ args.bond_data.z_last = Num(0)
    /\ ret.attrs.commodity_z = -2500
    /\ ret.attrs.regime = "Shock"
    /\ \E p \in 1..Len(ret.table) :
           /\ ret.table[p].Currency = "JPY"
           /\ ret.table[p].signal = "Bullish"

====
